---- MODULE Spec2Model ----
(***************************************************************************)
(* Model of the AgenticSim discrete-event kernel                            *)
(* (src/mksim/simulator/simulation_engine.py and the objects it drives).   *)
(*                                                                         *)
(* Times, loads, shares and capacities are either exact rationals         *)
(* <<num, den>>, which model the Python floats by the real numbers they    *)
(* approximate, or IEEE-754 binary64 values <<sign, mantissa, exponent>>,  *)
(* which model them bit for bit. The arithmetic is exact on rationals and  *)
(* correctly rounded as soon as one operand is a binary64 value.           *)
(* float('inf') is <<1, 0>> and Python's None (for timestamps) is <<0, 0>>.*)
(***************************************************************************)
EXTENDS Integers, Sequences, FiniteSets, TLC

(***************************************************************************)
(* Bounds of the model                                                     *)
(***************************************************************************)
\* number of requests the arrival generator creates
MaxRequests == 2
\* number of pushes made on an event queue used on its own
MaxPushes == 4
\* value of total_steps up to which a run on binary64 loads is followed
MaxTotalSteps == 8
\* number of nodes of the graphs handed to AgenticToolGraph(...)
MaxNodes == 3

(***************************************************************************)
(* Rational arithmetic                                                     *)
(***************************************************************************)
RECURSIVE GCD(_, _)
GCD(a, b) == IF b = 0 THEN a ELSE GCD(b, a % b)

Abs(x) == IF x < 0 THEN -x ELSE x

\* n/d reduced by the common divisor g, the denominator made positive
NormBy(n, d, g) ==
    IF d < 0 THEN <<(-n) \div g, (-d) \div g>> ELSE <<n \div g, d \div g>>

Norm(n, d) == NormBy(n, d, GCD(Abs(n), Abs(d)))

Q(n, d) == Norm(n, d)

\* the integer n
Whole(n) == <<n, 1>>
Zero == <<0, 1>>
Inf == <<1, 0>>
None == <<0, 0>>

(***************************************************************************)
(* IEEE-754 binary64 arithmetic (round to nearest, ties to even) on        *)
(* <<sign, mantissa, exponent>>: the value                                 *)
(* (-1)^sign * mantissa * 2^exponent, the mantissa a natural number held   *)
(* as a little-endian sequence of 15-bit limbs (<<>> is 0), odd unless 0.  *)
(***************************************************************************)
LimbBits == 15
LimbBase == 32768
MantissaBits == 53

\* 2^k for 0 <= k < LimbBits
Pow2(k) ==
    <<1, 2, 4, 8, 16, 32, 64, 128, 256, 512, 1024, 2048, 4096, 8192, 16384>>[k + 1]

\* number of bits of n, and number of trailing zero bits of n # 0, 0 <= n < LimbBase
IntBitLen(n) == Cardinality({k \in 0..(LimbBits - 1) : Pow2(k) <= n})
IntTrailingZeros(n) == Cardinality({k \in 1..(LimbBits - 1) : n % Pow2(k) = 0})

SetMax(S) == CHOOSE i \in S : \A j \in S : j <= i
SetMin(S) == CHOOSE i \in S : \A j \in S : i <= j

\* the limbs of a up to the highest of the places in S
BUpTo(a, S) == IF S = {} THEN <<>> ELSE SubSeq(a, 1, SetMax(S))

\* the limbs of a without the zero limbs at the top
BTrim(a) == BUpTo(a, {i \in 1..Len(a) : a[i] # 0})

BFromInt(n) ==
    BTrim(<<n % LimbBase, (n \div LimbBase) % LimbBase, n \div (LimbBase * LimbBase)>>)

BLimb(a, i) == IF 1 <= i /\ i <= Len(a) THEN a[i] ELSE 0

\* the carry into place i of the limb-wise sums s, found by lookahead
BCarry(s, i) ==
    IF \E j \in 1..(i - 1) : /\ s[j] >= LimbBase
                             /\ \A m \in (j + 1)..(i - 1) : s[m] = LimbBase - 1
    THEN 1 ELSE 0

BCarried(s) == BTrim(SubSeq([i \in 1..Len(s) |-> (s[i] + BCarry(s, i)) % LimbBase], 1, Len(s)))

BSums(a, b, n) == SubSeq([i \in 1..(n + 1) |-> BLimb(a, i) + BLimb(b, i)], 1, n + 1)

\* a + b
BAdd(a, b) ==
    IF a = <<>> THEN b
    ELSE IF b = <<>> THEN a
    ELSE BCarried(BSums(a, b, IF Len(a) > Len(b) THEN Len(a) ELSE Len(b)))

\* the borrow from place i of the limb-wise differences d, found by lookahead
BBorrow(d, i) ==
    IF \E j \in 1..(i - 1) : /\ d[j] < 0
                             /\ \A m \in (j + 1)..(i - 1) : d[m] = 0
    THEN 1 ELSE 0

BBorrowed(d) ==
    BTrim(SubSeq([i \in 1..Len(d) |-> (d[i] - BBorrow(d, i) + LimbBase) % LimbBase],
                 1, Len(d)))

\* a - b for a >= b
BSub(a, b) ==
    IF b = <<>> THEN a
    ELSE BBorrowed(SubSeq([i \in 1..Len(a) |-> a[i] - BLimb(b, i)], 1, Len(a)))

\* -1, 0 or 1 as a < b, a = b, a > b
BCmpAt(a, b, i) == IF a[i] < b[i] THEN -1 ELSE 1

BCmpWhere(a, b, differ) == IF differ = {} THEN 0 ELSE BCmpAt(a, b, SetMax(differ))

BCmp(a, b) ==
    IF Len(a) < Len(b) THEN -1
    ELSE IF Len(a) > Len(b) THEN 1
    ELSE BCmpWhere(a, b, {i \in 1..Len(a) : a[i] # b[i]})

\* a * k for 0 <= k < LimbBase
BMulSmall(a, k) ==
    IF a = <<>> \/ k = 0 THEN <<>>
    ELSE
    BAdd(SubSeq([i \in 1..Len(a) |-> (a[i] * k) % LimbBase], 1, Len(a)),
         <<0>> \o SubSeq([i \in 1..Len(a) |-> (a[i] * k) \div LimbBase], 1, Len(a)))

BShlLimbs(a, q) == IF a = <<>> THEN <<>> ELSE [i \in 1..q |-> 0] \o a

\* limb i takes the low bits of one limb of a and the high bits of the limb
\* below it
BShlBy(a, q, p, n) ==
    BTrim(SubSeq([i \in 1..n |-> ((BLimb(a, i - q) * p) % LimbBase)
                                 + ((BLimb(a, i - q - 1) * p) \div LimbBase)],
                 1, n))

\* a * 2^k
BShl(a, k) ==
    IF a = <<>> THEN <<>>
    ELSE BShlBy(a, k \div LimbBits, Pow2(k % LimbBits), Len(a) + k \div LimbBits + 1)

RECURSIVE BMulLoop(_, _, _)
BMulLoop(a, b, i) ==
    IF i > Len(b) THEN <<>>
    ELSE BAdd(BShlLimbs(BMulSmall(a, b[i]), i - 1), BMulLoop(a, b, i + 1))

BMul(a, b) == BMulLoop(a, b, 1)

BShrBy(d, p) ==
    BTrim(SubSeq([i \in 1..Len(d) |->
                     (d[i] \div p) + (BLimb(d, i + 1) % p) * (LimbBase \div p)],
                 1, Len(d)))

BDropLimbs(a, q) == IF q >= Len(a) THEN <<>> ELSE SubSeq(a, q + 1, Len(a))

\* floor(a / 2^k)
BShr(a, k) ==
    IF a = <<>> THEN <<>>
    ELSE BShrBy(BDropLimbs(a, k \div LimbBits), Pow2(k % LimbBits))

BBitLen(a) ==
    IF a = <<>> THEN 0 ELSE LimbBits * (Len(a) - 1) + IntBitLen(a[Len(a)])

\* bit i of a, bit 0 the least significant
BBit(a, i) == (BLimb(a, i \div LimbBits + 1) \div Pow2(i % LimbBits)) % 2

\* number of trailing zero bits of a # 0
BTrailingZerosAt(a, i) == LimbBits * (i - 1) + IntTrailingZeros(a[i])

BTrailingZeros(a) == BTrailingZerosAt(a, SetMin({j \in 1..Len(a) : a[j] # 0}))

\* floor(x / b) for x < b * LimbBase and the top limb of b at least
\* LimbBase / 2: the estimate q from the top limbs is at most 2 too large
RECURSIVE BQuotientLimbFrom(_, _, _)
BQuotientLimbFrom(x, b, q) ==
    IF BCmp(BMulSmall(b, q), x) <= 0 THEN q ELSE BQuotientLimbFrom(x, b, q - 1)

BQuotientEstimate(x, b, n) == (BLimb(x, n + 1) * LimbBase + BLimb(x, n)) \div b[n]

BQuotientCapped(estimate) == IF estimate >= LimbBase THEN LimbBase - 1 ELSE estimate

BQuotientLimb(x, b) ==
    BQuotientLimbFrom(x, b, BQuotientCapped(BQuotientEstimate(x, b, Len(b))))

\* long division of a by b, limb by limb from the top limb j of a down:
\* q holds the quotient limbs found so far, r the running remainder, x the
\* remainder with limb j of a brought down, d the quotient limb of x
RECURSIVE BDivFrom(_, _, _, _, _)
BDivWithLimb(a, b, j, q, x, d) ==
    BDivFrom(a, b, j - 1, <<d>> \o q, BSub(x, BMulSmall(b, d)))

BDivBroughtDown(a, b, j, q, x) ==
    IF BCmp(x, b) < 0 THEN BDivFrom(a, b, j - 1, <<0>> \o q, x)
    ELSE BDivWithLimb(a, b, j, q, x, BQuotientLimb(x, b))

BDivFrom(a, b, j, q, r) ==
    IF j = 0 THEN <<BTrim(q), r>>
    ELSE BDivBroughtDown(a, b, j, q, BTrim(<<a[j]>> \o r))

BDivAll(a, b) == BDivFrom(a, b, Len(a), <<>>, <<>>)

BDivUnscaled(qr, s) == <<qr[1], BShr(qr[2], s)>>

BDivScaled(a, b, s) == BDivUnscaled(BDivAll(BShl(a, s), BShl(b, s)), s)

\* <<floor(a / b), a mod b>>, b # 0: both are scaled to bring the top limb of
\* the divisor to LimbBase / 2 or more
BDivMod(a, b) == BDivScaled(a, b, LimbBits - IntBitLen(b[Len(b)]))

FZero == <<0, <<>>, 0>>

\* the mantissa made odd
FCanonBy(s, m, e, tz) == <<s, BShr(m, tz), e + tz>>

FCanon(s, m, e) ==
    IF m = <<>> THEN FZero ELSE FCanonBy(s, m, e, BTrailingZeros(m))

\* q = floor(m / 2^k) rounded up when the k bits dropped are more than half
\* a unit of q, or half a unit and q is odd
FRoundUp(m, k, q) ==
    IF BBit(m, k - 1) = 1 /\ (BTrailingZeros(m) < k - 1 \/ BBit(q, 0) = 1)
    THEN BAdd(q, <<1>>)
    ELSE q

FRoundDropping(m, k) == IF k = 0 THEN m ELSE FRoundUp(m, k, BShr(m, k))

FRoundBits(s, m, e, k) == FCanon(s, FRoundDropping(m, k), e + k)

\* m * 2^e rounded to 53 significant bits, ties to even
FRound(s, m, e) ==
    IF m = <<>> THEN FZero
    ELSE FRoundBits(s, m, e, IF BBitLen(m) <= MantissaBits THEN 0
                             ELSE BBitLen(m) - MantissaBits)

\* the quotient with one more bit at the bottom, which records a non-zero
\* remainder
FQuotientSticky(qr) ==
    BAdd(BShl(qr[1], 1), IF qr[2] = <<>> THEN <<>> ELSE <<1>>)

FQuotientScaled(s, ma, ea, mb, eb, k) ==
    FRound(s, FQuotientSticky(BDivMod(BShl(ma, k), mb)), ea - eb - k - 1)

FQuotientNeed(need) == IF need > 0 THEN need ELSE 0

\* (ma * 2^ea) / (mb * 2^eb), correctly rounded
FQuotient(s, ma, ea, mb, eb) ==
    IF ma = <<>> THEN FZero
    ELSE FQuotientScaled(s, ma, ea, mb, eb,
                         FQuotientNeed(MantissaBits + 3 + BBitLen(mb) - BBitLen(ma)))

FNeg(a) == IF a[2] = <<>> THEN a ELSE <<1 - a[1], a[2], a[3]>>

\* (-1)^sa * A * 2^e + (-1)^sb * B * 2^e
FAddAligned(sa, A, sb, B, e) ==
    FRound(IF sa = sb \/ BCmp(A, B) >= 0 THEN sa ELSE sb,
           IF sa = sb THEN BAdd(A, B)
           ELSE IF BCmp(A, B) >= 0 THEN BSub(A, B)
           ELSE BSub(B, A),
           e)

FAddAt(a, b, e) ==
    FAddAligned(a[1], BShl(a[2], a[3] - e), b[1], BShl(b[2], b[3] - e), e)

FAdd(a, b) ==
    IF a[2] = <<>> THEN b
    ELSE IF b[2] = <<>> THEN a
    ELSE FAddAt(a, b, IF a[3] < b[3] THEN a[3] ELSE b[3])

FSub(a, b) == FAdd(a, FNeg(b))
FMul(a, b) ==
    IF a[2] = <<>> \/ b[2] = <<>> THEN FZero
    ELSE FRound((a[1] + b[1]) % 2, BMul(a[2], b[2]), a[3] + b[3])
\* a / b for b # 0
FDiv(a, b) ==
    IF a[2] = <<>> \/ b[2] = <<>> THEN FZero
    ELSE FQuotient((a[1] + b[1]) % 2, a[2], a[3], b[2], b[3])

\* -1, 0 or 1 as |a| < |b|, |a| = |b|, |a| > |b|, both brought to exponent e
FCmpMagnitude(a, b, e) == BCmp(BShl(a[2], a[3] - e), BShl(b[2], b[3] - e))

\* a < b; the mantissas need not be odd
FLt(a, b) ==
    IF a[2] = <<>> THEN b[2] # <<>> /\ b[1] = 0
    ELSE IF b[2] = <<>> THEN a[1] = 1
    ELSE IF a[1] # b[1] THEN a[1] = 1
    ELSE FCmpMagnitude(a, b, IF a[3] < b[3] THEN a[3] ELSE b[3]) * (1 - 2 * a[1]) < 0

IsBinary64(x) == Len(x) = 3

\* float(n) for an integer n: below 2^31 it is a binary64 value
FInt(n) == FCanon(IF n < 0 THEN 1 ELSE 0, BFromInt(Abs(n)), 0)

\* float(x): the binary64 value nearest to the rational x
ToBinary64(x) ==
    IF IsBinary64(x) THEN x
    ELSE IF x[2] = 1 THEN FInt(x[1])
    ELSE FQuotient(IF x[1] < 0 THEN 1 ELSE 0, BFromInt(Abs(x[1])), 0, BFromInt(x[2]), 0)

\* a number as an exact numerator <<sign, mantissa, exponent>> over a
\* denominator: a binary64 value is its own numerator
ExactNum(x) ==
    IF IsBinary64(x) THEN x ELSE <<IF x[1] < 0 THEN 1 ELSE 0, BFromInt(Abs(x[1])), 0>>
ExactDen(x) == IF IsBinary64(x) THEN <<1>> ELSE BFromInt(x[2])

\* the numerators multiplied by the denominators, place by place
FScaled(nums, dens) ==
    [i \in 1..2 |-> <<nums[i][1], BMul(nums[i][2], dens[i]), nums[i][3]>>]

FLtPair(p) == FLt(p[1], p[2])

\* a < b on the exact values, by cross-multiplication
FLtExact(a, b) ==
    FLtPair(FScaled(<<ExactNum(a), ExactNum(b)>>, <<ExactDen(b), ExactDen(a)>>))

(***************************************************************************)
(* The arithmetic of the engine: exact on two rationals, binary64 otherwise*)
(***************************************************************************)
RAdd(a, b) ==
    IF IsBinary64(a) \/ IsBinary64(b) THEN FAdd(ToBinary64(a), ToBinary64(b))
    ELSE Norm(a[1] * b[2] + b[1] * a[2], a[2] * b[2])
RSub(a, b) ==
    IF IsBinary64(a) \/ IsBinary64(b) THEN FSub(ToBinary64(a), ToBinary64(b))
    ELSE Norm(a[1] * b[2] - b[1] * a[2], a[2] * b[2])
RMul(a, b) ==
    IF IsBinary64(a) \/ IsBinary64(b) THEN FMul(ToBinary64(a), ToBinary64(b))
    ELSE Norm(a[1] * b[1], a[2] * b[2])
RDiv(a, b) ==
    IF IsBinary64(a) \/ IsBinary64(b) THEN FDiv(ToBinary64(a), ToBinary64(b))
    ELSE Norm(a[1] * b[2], a[2] * b[1])
\* comparisons, by cross-multiplication on rationals; they order Inf above
\* every finite value
RLt(a, b) ==
    IF IsBinary64(a) \/ IsBinary64(b)
    THEN a # Inf /\ (b = Inf \/ FLtExact(a, b))
    ELSE a[1] * b[2] < b[1] * a[2]
RLe(a, b) ==
    IF IsBinary64(a) \/ IsBinary64(b) THEN ~RLt(b, a)
    ELSE a[1] * b[2] <= b[1] * a[2]
\* Python's min(a, b) and max(a, b): the first argument wins a tie
RMin(a, b) == IF RLt(b, a) THEN b ELSE a
RMax(a, b) == IF RLt(a, b) THEN b ELSE a

(***************************************************************************)
(* Resource kinds, capacities, epsilon                                     *)
(***************************************************************************)
ResourceType == {"cpu", "npu", "memory", "network", "disk"}
\* the enumeration order of the ResourceType enum
ResourceOrder == <<"cpu", "npu", "memory", "network", "disk">>

\* the capacity table the engine is constructed with
resource_capacities ==
    [cpu |-> Q(100, 1), npu |-> Q(100, 1), memory |-> Q(1000, 1),
     network |-> Q(100, 1), disk |-> Q(100, 1)]

get_capacity(r) == resource_capacities[r]

\* epsilon = 1e-9 = 1 / EpsilonDen
EpsilonDen == 1000000000

\* the literal 1e-9: the binary64 value nearest to 1 / EpsilonDen
Epsilon64 == ToBinary64(<<1, EpsilonDen>>)

\* work > epsilon; on rationals computed without leaving 32-bit integers:
\* n/d > 1/E  <=>  n > 0 /\ d < n*E  <=>  n > 0 /\ (d \div n) < E
GtEpsilon(w) ==
    IF IsBinary64(w) THEN FLt(Epsilon64, w)
    ELSE w[1] > 0 /\ (w[2] \div w[1]) < EpsilonDen

(***************************************************************************)
(* DAG templates handed over by the arrival generator                      *)
(***************************************************************************)
Load(cpu, npu, memory, network, disk) ==
    [cpu |-> Whole(cpu), npu |-> Whole(npu), memory |-> Whole(memory),
     network |-> Whole(network), disk |-> Whole(disk)]

\* nodes in dag.nodes() order, edges in insertion order, one load vector per node
DagTemplates ==
    << \* 1: single tool, cpu=100
       [nodes |-> <<"A">>, edges |-> <<>>,
        load |-> [n \in {"A"} |-> Load(100, 0, 0, 0, 0)]],
       \* 2: chain A(cpu=50) -> B(cpu=30)
       [nodes |-> <<"A", "B">>, edges |-> << <<"A", "B">> >>,
        load |-> [n \in {"A", "B"} |->
                    IF n = "A" THEN Load(50, 0, 0, 0, 0) ELSE Load(30, 0, 0, 0, 0)]],
       \* 3: two roots A(cpu=100, network=50), B(cpu=80)
       [nodes |-> <<"A", "B">>, edges |-> <<>>,
        load |-> [n \in {"A", "B"} |->
                    IF n = "A" THEN Load(100, 0, 0, 50, 0) ELSE Load(80, 0, 0, 0, 0)]],
       \* 4: diamond A(cpu=1) -> {B(cpu=50), C(cpu=50)} -> D(cpu=40)
       [nodes |-> <<"A", "B", "C", "D">>,
        edges |-> << <<"A", "B">>, <<"A", "C">>, <<"B", "D">>, <<"C", "D">> >>,
        load |-> [n \in {"A", "B", "C", "D"} |->
                    CASE n = "A" -> Load(1, 0, 0, 0, 0)
                      [] n = "D" -> Load(40, 0, 0, 0, 0)
                      [] OTHER   -> Load(50, 0, 0, 0, 0)]],
       \* 5: a root with all-zero loads followed by B(cpu=30)
       [nodes |-> <<"A", "B">>, edges |-> << <<"A", "B">> >>,
        load |-> [n \in {"A", "B"} |->
                    IF n = "A" THEN Load(0, 0, 0, 0, 0) ELSE Load(30, 0, 0, 0, 0)]],
       \* 6: chain over three resources A(network=50) -> B(memory=500) -> C(disk=20)
       [nodes |-> <<"A", "B", "C">>, edges |-> << <<"A", "B">>, <<"B", "C">> >>,
        load |-> [n \in {"A", "B", "C"} |->
                    CASE n = "A" -> Load(0, 0, 0, 50, 0)
                      [] n = "B" -> Load(0, 0, 500, 0, 0)
                      [] OTHER   -> Load(0, 0, 0, 0, 20)]],
       \* 7: roots A(cpu=20), B(network=60); join C(cpu=30) after A and B; D(cpu=30) after B
       [nodes |-> <<"A", "B", "C", "D">>,
        edges |-> << <<"A", "C">>, <<"B", "C">>, <<"B", "D">> >>,
        load |-> [n \in {"A", "B", "C", "D"} |->
                    CASE n = "A" -> Load(20, 0, 0, 0, 0)
                      [] n = "B" -> Load(0, 0, 0, 60, 0)
                      [] OTHER   -> Load(30, 0, 0, 0, 0)]] >>

\* a load vector of Python floats with work on the cpu only
Binary64Load(cpu) ==
    [cpu |-> FInt(cpu), npu |-> Zero, memory |-> Zero,
     network |-> Zero, disk |-> Zero]

\* single-tool DAGs with loads of some 10^7 work units, held in binary64
LargeLoadTemplates ==
    << [nodes |-> <<"A">>, edges |-> <<>>,
        load |-> [n \in {"A"} |-> Binary64Load(24000000)]],
       [nodes |-> <<"A">>, edges |-> <<>>,
        load |-> [n \in {"A"} |-> Binary64Load(29162508)]] >>

\* a single tool whose work the whole cpu finishes in 0.25 s
QuarterSecondTemplates ==
    << [nodes |-> <<"A">>, edges |-> <<>>,
        load |-> [n \in {"A"} |-> Load(25, 0, 0, 0, 0)]] >>

AllTemplates == DagTemplates \o LargeLoadTemplates \o QuarterSecondTemplates

Range(s) == {s[i] : i \in 1..Len(s)}

\* arrival timestamps the generator hands out: 0 s and 0.25 s
ArrivalTimes == {Q(0, 1), Q(1, 4)}

(***************************************************************************)
(* State                                                                   *)
(***************************************************************************)
VARIABLES
    workload,            \* the Request objects created by the generator so far
    pc,                  \* "deposit" | "idle" | "run": where the caller is
    until, max_steps,    \* arguments of the run() call in progress
    current_time,
    event_queue,         \* EventQueue._heap
    event_counter,       \* EventQueue._event_counter
    requests,            \* ids of the requests registered in engine.requests
    active_tools,
    completed_requests,
    total_steps,
    status, start_time, finish_time, remaining_work,   \* per tool instance
    req_start_time, req_finish_time,                   \* per request
    first_instance,      \* the timestamps a caller took from an earlier engine, if any
    graph,               \* the nx.DiGraph last handed to AgenticToolGraph(...)
    tool_graph,          \* what that construction gave: the object or the error
    resource_input,      \* the mapping last handed to ResourceManager(...) or from_config
    resource_manager,    \* what that construction gave: ResourceManager.resources or the error
    queue_result,        \* what the last pop() or peek() of the caller gave
    pops,                \* number of pop() calls that returned an event
    metrics,             \* engine.metrics: "None" or the MetricsCollector of collector
    collector,           \* the attributes of a MetricsCollector
    current_share,       \* the current_share attribute of the tool instances that have one
    collector_call       \* the last call a caller made on the collector, and what it gave

vars == <<workload, pc, until, max_steps, current_time, event_queue,
          event_counter, requests, active_tools, completed_requests, total_steps,
          status, start_time, finish_time, remaining_work,
          req_start_time, req_finish_time, first_instance,
          graph, tool_graph, resource_input, resource_manager, queue_result, pops,
          metrics, collector, current_share, collector_call>>

\* the engine with its queue, tools and requests, and the caller of run()
engine_vars ==
    <<workload, pc, until, max_steps, current_time, event_queue, event_counter,
      requests, active_tools, completed_requests, total_steps, status, start_time,
      finish_time, remaining_work, req_start_time, req_finish_time, first_instance>>

\* what the caller of the constructors and of the queue operations holds
caller_vars == <<graph, tool_graph, resource_input, resource_manager, queue_result, pops>>

\* the metrics collector, the engine's reference to it and the attribute of
\* the tool instances that only the collector reads
metrics_vars == <<metrics, collector, current_share, collector_call>>

(***************************************************************************)
(* Request: DAG queries and tool instances                                 *)
(***************************************************************************)
\* number of arrival events handed to schedule_event; request ids are 1..deposited
deposited == Len(workload)
RequestIds == 1..deposited

Dag(r) == AllTemplates[workload[r].dag]

\* tool_id = "{request_id}_{tool_name}"
ToolId(r, n) == <<r, n>>
ToolsOf(r) == {ToolId(r, n) : n \in Range(Dag(r).nodes)}
AllTools == UNION {ToolsOf(r) : r \in RequestIds}

tool_template(t) == Dag(t[1]).load[t[2]]
get_load(t, r) == tool_template(t)[r]

get_dependencies(r, n) ==
    {e[1] : e \in {x \in Range(Dag(r).edges) : x[2] = n}}

\* successors() that yields only the first successor
get_dependents_first_only(r, n) ==
    LET es == Dag(r).edges
        sel == SelectSeq(es, LAMBDA e : e[1] = n)
    IN  [i \in 1..(IF Len(sel) > 0 THEN 1 ELSE 0) |-> sel[i][2]]

\* successors in edge-insertion order
get_dependents(r, n) ==
    LET es == Dag(r).edges
        sel == SelectSeq(es, LAMBDA e : e[1] = n)
    IN  [i \in 1..Len(sel) |-> sel[i][2]]

\* roots cut down to the first node of in-degree 0
get_root_tools_first_only(r) ==
    SubSeq(SelectSeq(Dag(r).nodes, LAMBDA n : get_dependencies(r, n) = {}), 1, 1)

\* get_root_tools in node order
get_root_tools(r) ==
    SelectSeq(Dag(r).nodes, LAMBDA n : get_dependencies(r, n) = {})

\* can_start_tool with any() in place of all()
can_start_tool_any(st, r, n) ==
    \E dep \in get_dependencies(r, n) : st[ToolId(r, dep)] = "completed"

can_start_tool(st, r, n) ==
    \A dep \in get_dependencies(r, n) : st[ToolId(r, dep)] = "completed"

\* is_completed that only tests that no tool is still pending
request_is_completed_none_pending(st, r) ==
    \A t \in ToolsOf(r) : st[t] # "pending"

request_is_completed(st, r) ==
    \A t \in ToolsOf(r) : st[t] = "completed"

\* get_latency with the operands swapped
get_latency_reversed(r) ==
    IF req_finish_time[r] = None THEN None
    ELSE RSub(workload[r].arrival_time, req_finish_time[r])

get_latency(r) ==
    IF req_finish_time[r] = None THEN None
    ELSE RSub(req_finish_time[r], workload[r].arrival_time)

\* is_completed with any() in place of all()
is_completed_any_axis(rw, t) == \E r \in ResourceType : ~GtEpsilon(rw[t][r])

\* ToolInstance.has_work_on_resource / is_completed on a remaining-work table
has_work_on_resource(rw, t, r) == GtEpsilon(rw[t][r])
is_completed(rw, t) == \A r \in ResourceType : ~GtEpsilon(rw[t][r])

\* ToolInstance.initialize_work
initialize_work(t) == [r \in ResourceType |-> get_load(t, r)]

(***************************************************************************)
(* Event and EventQueue (heapq on a list; positions are 0-based as in the  *)
(* source, the sequence is 1-based)                                        *)
(***************************************************************************)
REQUEST_ARRIVAL == "REQUEST_ARRIVAL"
TOOL_START == "TOOL_START"

\* Event(timestamp, event_type, payload) with the default priority 0;
\* the payload is <<request id, tool name>>, tool name "-" for an arrival
Event(ts, type, payload) ==
    [timestamp |-> ts, event_type |-> type, priority |-> 0, payload |-> payload]

\* ordering that looks at the timestamp only
EventLt_timestamp_only(a, b) == RLt(a.timestamp, b.timestamp)

\* dataclass(order=True): compares (timestamp, priority)
EventLt(a, b) ==
    \/ RLt(a.timestamp, b.timestamp)
    \/ a.timestamp = b.timestamp /\ a.priority < b.priority

RECURSIVE SiftDownLoop(_, _, _, _)
SiftDownLoop(heap, startpos, pos, newitem) ==
    IF pos > startpos
    THEN LET parentpos == (pos - 1) \div 2
             parent == heap[parentpos + 1]
         IN  IF EventLt(newitem, parent)
             THEN SiftDownLoop([heap EXCEPT ![pos + 1] = parent], startpos, parentpos, newitem)
             ELSE [heap EXCEPT ![pos + 1] = newitem]
    ELSE [heap EXCEPT ![pos + 1] = newitem]

siftdown(heap, startpos, pos) == SiftDownLoop(heap, startpos, pos, heap[pos + 1])

RECURSIVE SiftUpLoop(_, _, _, _, _)
SiftUpLoop(heap, pos, childpos, endpos, newitem) ==
    IF childpos < endpos
    THEN LET rightpos == childpos + 1
             c == IF rightpos < endpos /\ ~EventLt(heap[childpos + 1], heap[rightpos + 1])
                  THEN rightpos ELSE childpos
         IN  SiftUpLoop([heap EXCEPT ![pos + 1] = heap[c + 1]], c, 2 * c + 1, endpos, newitem)
    ELSE <<[heap EXCEPT ![pos + 1] = newitem], pos>>

siftup(heap, pos) ==
    LET res == SiftUpLoop(heap, pos, 2 * pos + 1, Len(heap), heap[pos + 1])
    IN  siftdown(res[1], pos, res[2])

\* EventQueue.push
heappush(heap, item) == siftdown(Append(heap, item), 0, Len(heap))

\* EventQueue.pop on a non-empty heap: <<popped event, remaining heap>>
heappop(heap) ==
    LET lastelt == heap[Len(heap)]
        rest == SubSeq(heap, 1, Len(heap) - 1)
    IN  IF rest # <<>>
        THEN <<rest[1], siftup([rest EXCEPT ![1] = lastelt], 0)>>
        ELSE <<lastelt, rest>>

\* EventQueue.peek().timestamp if the queue is non-empty else inf
next_start_time_of(heap) == IF heap # <<>> THEN heap[1].timestamp ELSE Inf

(***************************************************************************)
(* Scheduler core                                                          *)
(***************************************************************************)
\* consumer count that counts every active tool
resource_consumers_all_active(active, rw, r) == Cardinality(active)

\* number of active tools with work on r
resource_consumers(active, rw, r) ==
    Cardinality({t \in active : has_work_on_resource(rw, t, r)})

\* shares with the divisor off by one
compute_resource_shares_off_by_one(active, rw) ==
    [r \in ResourceType |->
        LET num_consumers == resource_consumers(active, rw, r)
        IN  IF num_consumers > 0
            THEN RDiv(get_capacity(r), Q(num_consumers + 1, 1))
            ELSE Zero]

compute_resource_shares(active, rw) ==
    [r \in ResourceType |->
        LET num_consumers == resource_consumers(active, rw, r)
        IN  IF num_consumers > 0
            THEN RDiv(get_capacity(r), Q(num_consumers, 1))
            ELSE Zero]

\* some enumeration of a set (the iteration order of a Python set)
RECURSIVE SetToSeq(_)
SetToSeq(S) ==
    IF S = {} THEN <<>>
    ELSE LET x == CHOOSE y \in S : TRUE IN <<x>> \o SetToSeq(S \ {x})

\* completion time that leaves out current_time
completion_time_of_relative(now, remaining, share) == RDiv(remaining, share)

\* time to complete work on one resource: current_time + remaining / share
completion_time_of(now, remaining, share) == RAdd(now, RDiv(remaining, share))

\* the inner loop of _find_next_completion over the resources of one tool
RECURSIVE ScanResources(_, _, _, _, _, _)
ScanResources(t, i, rw, shares, now, min_completion_time) ==
    IF i > Len(ResourceOrder) THEN min_completion_time
    ELSE LET r == ResourceOrder[i]
             remaining == rw[t][r]
             share == shares[r]
         IN  IF ~GtEpsilon(remaining) THEN
                 ScanResources(t, i + 1, rw, shares, now, min_completion_time)
             ELSE IF RLe(share, Zero) THEN
                 ScanResources(t, i + 1, rw, shares, now, min_completion_time)
             ELSE LET completion_time == completion_time_of(now, remaining, share)
                  IN  IF RLt(completion_time, min_completion_time)
                      THEN ScanResources(t, i + 1, rw, shares, now, completion_time)
                      ELSE ScanResources(t, i + 1, rw, shares, now, min_completion_time)

RECURSIVE ScanTools(_, _, _, _, _)
ScanTools(ts, rw, shares, now, min_completion_time) ==
    IF ts = <<>> THEN min_completion_time
    ELSE ScanTools(Tail(ts), rw, shares, now,
                   ScanResources(Head(ts), 1, rw, shares, now, min_completion_time))

\* _find_next_completion: the completion time it returns (run() ignores the
\* tool and the resource returned with it)
find_next_completion(active, rw, now) ==
    IF active = {} THEN Inf
    ELSE ScanTools(SetToSeq(active), rw, compute_resource_shares(active, rw), now, Inf)

(***************************************************************************)
(* Handlers of the simulation loop                                         *)
(***************************************************************************)
\* run(until, max_steps=None): None is NoCap
NoCap == -1
\* horizons and step caps the caller passes to run()
UntilValues == {Q(1, 8), Q(1, 1), Q(10, 1)}
StepCap == 3
StepCaps == {NoCap, 0, StepCap}

\* lookup that only finds the root tools of a registered request
find_tool_by_id_roots_only(reqs, tool_id) ==
    IF /\ tool_id[1] \in reqs
       /\ tool_id \in ToolsOf(tool_id[1])
       /\ get_dependencies(tool_id[1], tool_id[2]) = {}
    THEN tool_id ELSE None

\* _find_tool_by_id: the tool instance with this id in a registered request
find_tool_by_id(reqs, tool_id) ==
    IF tool_id[1] \in reqs /\ tool_id \in ToolsOf(tool_id[1]) THEN tool_id ELSE None

\* root starts stamped with time zero in place of the admission time
RECURSIVE push_root_starts_at_zero(_, _, _, _, _)
push_root_starts_at_zero(heap, r, roots, i, now) ==
    IF i > Len(roots) THEN heap
    ELSE push_root_starts_at_zero(
             heappush(heap, Event(Zero, TOOL_START, ToolId(r, roots[i]))),
             r, roots, i + 1, now)

\* _handle_request_arrival: one TOOL_START per root tool, in root order
RECURSIVE push_root_starts(_, _, _, _, _)
push_root_starts(heap, r, roots, i, now) ==
    IF i > Len(roots) THEN heap
    ELSE push_root_starts(heappush(heap, Event(now, TOOL_START, ToolId(r, roots[i]))),
                          r, roots, i + 1, now)

\* update that adds the work done instead of subtracting it
work_after_added(rw, shares, t, r, time_delta) ==
    IF has_work_on_resource(rw, t, r)
    THEN LET work_done == RMul(shares[r], time_delta)
         IN  RMax(Zero, RAdd(rw[t][r], work_done))
    ELSE rw[t][r]

\* the update loop of _handle_resource_completion: new remaining work of
\* tool t on resource r after time_delta at the given shares
work_after(rw, shares, t, r, time_delta) ==
    IF has_work_on_resource(rw, t, r)
    THEN LET work_done == RMul(shares[r], time_delta)
         IN  RMax(Zero, RSub(rw[t][r], work_done))
    ELSE rw[t][r]

update_remaining_work(active, rw, time_delta) ==
    LET shares == compute_resource_shares(active, rw)
    IN  [t \in DOMAIN rw |->
            IF t \in active
            THEN [r \in ResourceType |-> work_after(rw, shares, t, r, time_delta)]
            ELSE rw[t]]

\* ---- MetricsCollector ----
\* MetricsCollector(): the attributes after construction
MetricsCollector ==
    [latencies_by_type |-> <<>>,
     completed_requests |-> <<>>,
     utilization_snapshots |-> <<>>,
     active_tools_snapshots |-> <<>>,
     resource_timeline |-> [r \in ResourceType |-> <<>>],
     current_allocation_start |-> None]

\* record_request_latency(request), the request given by its id, its type
\* (the DAG it was created from) and its latency
record_request_latency(c, request, request_type, latency) ==
    IF latency # None
    THEN [c EXCEPT !.latencies_by_type = Append(@, <<request_type, latency>>),
                   !.completed_requests = Append(@, request)]
    ELSE c

\* the sum of tool.current_share[r] over the given tools
RECURSIVE total_consumption(_, _)
total_consumption(tools, r) ==
    IF tools = {} THEN Zero
    ELSE LET tool == CHOOSE t \in tools : TRUE
         IN  RAdd(current_share[tool][r], total_consumption(tools \ {tool}, r))

\* reading tool.current_share of a tool instance without that attribute
\* raises AttributeError: snapshot reads it for every active tool with work
\* on a kind of non-zero capacity
snapshot_raises(active, rw) ==
    \E r \in ResourceType :
        /\ get_capacity(r) # Zero
        /\ \E tool \in active : /\ has_work_on_resource(rw, tool, r)
                                /\ tool \notin DOMAIN current_share

\* the entry snapshot() appends to utilization_snapshots
utilization_snapshot(now, active, rw) ==
    [time |-> now,
     utilization |->
        [r \in ResourceType |->
            IF get_capacity(r) = Zero THEN Zero
            ELSE RDiv(total_consumption({tool \in active :
                                            has_work_on_resource(rw, tool, r)}, r),
                      get_capacity(r))],
     consumers |->
        [r \in ResourceType |->
            IF get_capacity(r) = Zero THEN 0 ELSE resource_consumers(active, rw, r)]]

\* snapshot(current_time, active_tools, resource_manager) that returns
snapshot(c, now, active, rw) ==
    [c EXCEPT !.utilization_snapshots = Append(@, utilization_snapshot(now, active, rw)),
              !.active_tools_snapshots =
                  Append(@, [time |-> now, count |-> Cardinality(active)])]

\* _close_allocation_intervals(end_time)
close_allocation_intervals(timeline, end_time) ==
    [r \in ResourceType |->
        IF timeline[r] # <<>> /\ timeline[r][Len(timeline[r])].end = None
        THEN [timeline[r] EXCEPT ![Len(timeline[r])].end = end_time]
        ELSE timeline[r]]

\* the loop of record_resource_allocation over the ResourceType enum, from
\* kind number i on: reading tool.current_share of a tool with work that has
\* no such attribute raises and leaves the kinds handled so far as they are
RECURSIVE open_allocation_intervals(_, _, _, _, _)
open_allocation_intervals(timeline, i, now, active, rw) ==
    IF i > Len(ResourceOrder) THEN [resource_timeline |-> timeline, raised |-> FALSE]
    ELSE LET r == ResourceOrder[i]
             working == {tool \in active : has_work_on_resource(rw, tool, r)}
         IN  IF working \ DOMAIN current_share # {}
             THEN [resource_timeline |-> timeline, raised |-> TRUE]
             ELSE LET allocated == {tool \in working : RLt(Zero, current_share[tool][r])}
                      interval == [start |-> now, end |-> None,
                                   total |-> total_consumption(allocated, r),
                                   allocations |-> [tool \in allocated |->
                                                       current_share[tool][r]]]
                  IN  open_allocation_intervals(
                          IF allocated # {} \/ timeline[r] # <<>>
                          THEN [timeline EXCEPT ![r] = Append(@, interval)]
                          ELSE timeline,
                          i + 1, now, active, rw)

\* record_resource_allocation(current_time, active_tools): the collector it
\* leaves and whether it raised AttributeError
record_resource_allocation(c, now, active, rw) ==
    LET closed == IF c.current_allocation_start # None
                  THEN close_allocation_intervals(c.resource_timeline, now)
                  ELSE c.resource_timeline
        opened == open_allocation_intervals(closed, 1, now, active, rw)
    IN  [collector |-> [c EXCEPT !.resource_timeline = opened.resource_timeline,
                                 !.current_allocation_start =
                                     IF opened.raised THEN @ ELSE now],
         raised |-> opened.raised]

\* finalize_timeline(end_time)
finalize_timeline(c, end_time) ==
    IF c.current_allocation_start # None
    THEN [c EXCEPT !.resource_timeline = close_allocation_intervals(@, end_time)]
    ELSE c

\* export_resource_timeline(): per kind the intervals that have an end
HasEnd(interval) == interval.end # None
export_resource_timeline(c) ==
    [r \in ResourceType |-> SelectSeq(c.resource_timeline[r], HasEnd)]

\* the end of one iteration of run(), after the handler has left the
\* collector as c, the active set as active and the remaining work as rw:
\* the snapshot if a collector is attached, then the step counter. An
\* AttributeError of the snapshot leaves run()
EndOfIteration(c, now, active, rw) ==
    IF metrics = "None"
    THEN /\ total_steps' = total_steps + 1
         /\ collector' = c
         /\ UNCHANGED <<pc, until, max_steps>>
    ELSE IF snapshot_raises(active, rw)
    THEN /\ pc' = "AttributeError"
         /\ until' = None
         /\ max_steps' = NoCap
         /\ collector' = c
         /\ UNCHANGED total_steps
    ELSE /\ collector' = snapshot(c, now, active, rw)
         /\ total_steps' = total_steps + 1
         /\ UNCHANGED <<pc, until, max_steps>>

\* the dependents loop of _check_and_start_dependents
RECURSIVE push_dependent_starts(_, _, _, _, _, _)
push_dependent_starts(heap, st, r, deps, i, now) ==
    IF i > Len(deps) THEN heap
    ELSE LET dependent_tool == ToolId(r, deps[i])
         IN  push_dependent_starts(
                 IF can_start_tool(st, r, deps[i]) /\ st[dependent_tool] = "pending"
                 THEN heappush(heap, Event(now, TOOL_START, dependent_tool))
                 ELSE heap,
                 st, r, deps, i + 1, now)

\* _check_and_start_dependents(finished_tool) on the engine state e
check_and_start_dependents(e, finished_tool, now) ==
    LET r == finished_tool[1]
        q == push_dependent_starts(e.event_queue, e.status, r,
                                   get_dependents(r, finished_tool[2]), 1, now)
    IN  IF request_is_completed(e.status, r)
        THEN [e EXCEPT !.event_queue = q,
                       !.req_finish_time[r] = now,
                       !.completed_requests = Append(@, r),
                       !.collector =
                           IF metrics = "None" THEN @
                           ELSE record_request_latency(@, r, workload[r].dag,
                                                       RSub(now, workload[r].arrival_time))]
        ELSE [e EXCEPT !.event_queue = q]

\* finalisation that leaves the finished tool in the active set
finalize_tool_keeping_active(e, tool, now) ==
    check_and_start_dependents(
        [e EXCEPT !.status[tool] = "completed",
                  !.finish_time[tool] = now],
        tool, now)

\* the body of the finalisation loop for one finished tool
finalize_tool(e, tool, now) ==
    check_and_start_dependents(
        [e EXCEPT !.status[tool] = "completed",
                  !.finish_time[tool] = now,
                  !.active_tools = @ \ {tool}],
        tool, now)

\* finalisation that marks every finished tool first and only then looks at
\* the dependents of each of them
finalize_tools_batch(e, finished_tools, now) ==
    LET fin == Range(finished_tools)
        marked == [e EXCEPT
                     !.status = [t \in DOMAIN @ |-> IF t \in fin THEN "completed" ELSE @[t]],
                     !.finish_time = [t \in DOMAIN @ |-> IF t \in fin THEN now ELSE @[t]],
                     !.active_tools = @ \ fin]
        RECURSIVE release(_, _)
        release(x, i) ==
            IF i > Len(finished_tools) THEN x
            ELSE release(check_and_start_dependents(x, finished_tools[i], now), i + 1)
    IN  release(marked, 1)

\* finalisation that handles the first finished tool only
finalize_tools_first_only(e, finished_tools, now) ==
    IF finished_tools = <<>> THEN e
    ELSE finalize_tool(e, Head(finished_tools), now)

RECURSIVE finalize_tools(_, _, _)
finalize_tools(e, finished_tools, now) ==
    IF finished_tools = <<>> THEN e
    ELSE finalize_tools(finalize_tool(e, Head(finished_tools), now),
                        Tail(finished_tools), now)

\* every order in which list(self.active_tools) can enumerate a set
RECURSIVE Perms(_)
Perms(S) ==
    IF S = {} THEN {<<>>}
    ELSE UNION {{<<x>> \o p : p \in Perms(S \ {x})} : x \in S}

(***************************************************************************)
(* Initial state and actions                                               *)
(***************************************************************************)
Init ==
    /\ workload = <<>>
    /\ pc = "deposit"
    /\ until = None
    /\ max_steps = NoCap
    /\ current_time = Zero
    /\ event_queue = <<>>
    /\ event_counter = 0
    /\ requests = {}
    /\ active_tools = {}
    /\ completed_requests = <<>>
    /\ total_steps = 0
    /\ status = [t \in {} |-> "pending"]
    /\ start_time = [t \in {} |-> None]
    /\ finish_time = [t \in {} |-> None]
    /\ remaining_work = [t \in {} |-> [r \in ResourceType |-> Zero]]
    /\ req_start_time = <<>>
    /\ req_finish_time = <<>>
    /\ first_instance = <<>>
    /\ graph = [nodes |-> {}, edges |-> {}]
    /\ tool_graph = "none"
    /\ resource_input = [how |-> "none", mapping |-> [kind \in {} |-> 0]]
    /\ resource_manager = [result |-> "none", resources |-> [kind \in {} |-> Zero]]
    /\ queue_result = [call |-> "none", result |-> "none", event |-> 0]
    /\ pops = 0
    /\ metrics = "None"
    /\ collector = MetricsCollector
    /\ current_share = [t \in {} |-> [r \in ResourceType |-> Zero]]
    /\ collector_call = [call |-> "none", time |-> Zero, active_tools |-> {},
                         remaining_work |-> [t \in {} |-> [r \in ResourceType |-> Zero]],
                         result |-> "None", finalized |-> FALSE,
                         export |-> MetricsCollector.resource_timeline]

\* f extended to the tool instances in new, each with value v
WithNewTools(f, new, v) ==
    [t \in DOMAIN f \cup new |-> IF t \in new THEN v ELSE f[t]]

\* the generator creates the next Request with DAG template d and arrival
\* time a (one pending tool instance per DAG node) and the caller hands its
\* arrival event, built with the given priority, to schedule_event
DepositRequest(d, a, priority) ==
    LET request_id == deposited + 1
        new == {ToolId(request_id, n) : n \in Range(AllTemplates[d].nodes)}
    IN  /\ workload' = Append(workload, [dag |-> d, arrival_time |-> a])
        /\ status' = WithNewTools(status, new, "pending")
        /\ start_time' = WithNewTools(start_time, new, None)
        /\ finish_time' = WithNewTools(finish_time, new, None)
        /\ remaining_work' = WithNewTools(remaining_work, new,
                                          [r \in ResourceType |-> Zero])
        /\ req_start_time' = Append(req_start_time, None)
        /\ req_finish_time' = Append(req_finish_time, None)
        /\ event_queue' = heappush(event_queue,
                                  [Event(a, REQUEST_ARRIVAL, <<request_id, "-">>)
                                      EXCEPT !.priority = priority])
        /\ event_counter' = event_counter + 1
        /\ UNCHANGED <<caller_vars, metrics_vars, first_instance, pc, until, max_steps, current_time, requests, active_tools,
                       completed_requests, total_steps>>

\* the arrival events are deposited before the first run, in the sorted
\* order in which the generator returns the requests, with the default priority
ScheduleEvent ==
    /\ pc = "deposit"
    /\ deposited < MaxRequests
    /\ \E d \in 1..Len(DagTemplates), a \in ArrivalTimes :
          /\ deposited > 0 => RLe(workload[deposited].arrival_time, a)
          /\ DepositRequest(d, a, 0)

\* the caller calls run(u, m)
RunCall ==
    /\ pc \in {"deposit", "idle"}
    /\ \E u \in UntilValues, m \in StepCaps :
          /\ until' = u
          /\ max_steps' = m
    /\ pc' = "run"
    /\ UNCHANGED <<caller_vars, metrics_vars, first_instance, workload, current_time, event_queue, event_counter, requests, active_tools,
                   completed_requests, total_steps, status, start_time, finish_time,
                   remaining_work, req_start_time, req_finish_time>>

\* values computed at the head of one loop iteration
next_start_time == next_start_time_of(event_queue)
next_completion_time == find_next_completion(active_tools, remaining_work, current_time)
next_time == RMin(next_start_time, next_completion_time)

\* break tests without the test of next_time against until
LoopBreaks_no_until_wall ==
    \/ max_steps # NoCap /\ total_steps >= max_steps
    \/ RLt(until, next_start_time) /\ active_tools = {}
    \/ next_time = Inf

\* break tests without the test of the step counter against max_steps
LoopBreaks_no_step_cap ==
    \/ RLt(until, next_start_time) /\ active_tools = {}
    \/ LET t == next_time IN t = Inf \/ RLt(until, t)

\* break tests with the step counter allowed to reach max_steps + 1
LoopBreaks_cap_off_by_one ==
    \/ max_steps # NoCap /\ total_steps > max_steps
    \/ RLt(until, next_start_time) /\ active_tools = {}
    \/ LET t == next_time IN t = Inf \/ RLt(until, t)

\* the four break tests of the loop, in order
LoopBreaks ==
    \/ max_steps # NoCap /\ total_steps >= max_steps
    \/ RLt(until, next_start_time) /\ active_tools = {}
    \/ LET t == next_time IN t = Inf \/ RLt(until, t)

\* run() returns
RunReturn ==
    /\ pc = "run"
    /\ LoopBreaks
    /\ pc' = "idle"
    /\ until' = None
    /\ max_steps' = NoCap
    /\ UNCHANGED <<caller_vars, metrics_vars, first_instance, workload, current_time, event_queue, event_counter, requests, active_tools,
                   completed_requests, total_steps, status, start_time, finish_time,
                   remaining_work, req_start_time, req_finish_time>>

\* one iteration that pops a REQUEST_ARRIVAL event
StepRequestArrival ==
    /\ pc = "run"
    /\ ~LoopBreaks
    /\ next_time = next_start_time
    /\ LET popped == heappop(event_queue)
           event == popped[1]
           request == event.payload[1]
       IN  /\ event.event_type = REQUEST_ARRIVAL
           /\ current_time' = event.timestamp
           /\ requests' = requests \cup {request}
           /\ event_queue' = push_root_starts(popped[2], request, get_root_tools(request),
                                              1, event.timestamp)
           /\ event_counter' = event_counter + Len(get_root_tools(request))
           /\ EndOfIteration(collector, event.timestamp, active_tools, remaining_work)
    /\ UNCHANGED <<caller_vars, metrics, current_share, collector_call, first_instance, workload, active_tools,
                   completed_requests, status, start_time, finish_time,
                   remaining_work, req_start_time, req_finish_time>>

\* one iteration that pops a TOOL_START event
StepToolStart ==
    /\ pc = "run"
    /\ ~LoopBreaks
    /\ next_time = next_start_time
    /\ LET popped == heappop(event_queue)
           event == popped[1]
           tool == find_tool_by_id(requests, event.payload)
       IN  /\ event.event_type = TOOL_START
           /\ tool # None
           /\ current_time' = event.timestamp
           /\ event_queue' = popped[2]
           /\ status' = [status EXCEPT ![tool] = "running"]
           /\ start_time' = [start_time EXCEPT ![tool] = event.timestamp]
           /\ remaining_work' = [remaining_work EXCEPT ![tool] = initialize_work(tool)]
           /\ active_tools' = active_tools \cup {tool}
           /\ req_start_time' =
                 IF req_start_time[tool[1]] = None
                 THEN [req_start_time EXCEPT ![tool[1]] = event.timestamp]
                 ELSE req_start_time
           /\ EndOfIteration(collector, event.timestamp, active_tools \cup {tool},
                             [remaining_work EXCEPT ![tool] = initialize_work(tool)])
    /\ UNCHANGED <<caller_vars, metrics, current_share, collector_call, first_instance, workload, event_counter, requests,
                   completed_requests, finish_time, req_finish_time>>

\* one iteration that handles resource completion(s)
StepCompletion ==
    /\ pc = "run"
    /\ ~LoopBreaks
    /\ next_time # next_start_time
    /\ current_time' = next_completion_time
    /\ LET time_delta == RSub(current_time', current_time)
       IN  remaining_work' = update_remaining_work(active_tools, remaining_work, time_delta)
    /\ LET now == current_time'
           finished == {t \in active_tools : is_completed(remaining_work', t)}
       IN  \E finished_tools \in Perms(finished) :
              LET e == finalize_tools(
                          [status |-> status, finish_time |-> finish_time,
                           active_tools |-> active_tools, event_queue |-> event_queue,
                           req_finish_time |-> req_finish_time,
                           completed_requests |-> completed_requests,
                           collector |-> collector],
                          finished_tools, now)
              IN  /\ status' = e.status
                  /\ finish_time' = e.finish_time
                  /\ active_tools' = e.active_tools
                  /\ event_queue' = e.event_queue
                  \* one increment per push made by the dependents loops
                  /\ event_counter' = event_counter + Len(e.event_queue) - Len(event_queue)
                  /\ req_finish_time' = e.req_finish_time
                  /\ completed_requests' = e.completed_requests
                  /\ EndOfIteration(e.collector, now, e.active_tools, remaining_work')
    /\ UNCHANGED <<caller_vars, metrics, current_share, collector_call, first_instance, workload, requests,
                   start_time, req_start_time>>

Next ==
    \/ ScheduleEvent
    \/ RunCall
    \/ RunReturn
    \/ StepRequestArrival
    \/ StepToolStart
    \/ StepCompletion

Spec == Init /\ [][Next]_vars

(***************************************************************************)
(* A caller that also deposits arrival events between two runs             *)
(***************************************************************************)
\* schedule_event called after a run() has returned: the event carries any
\* arrival time, also one that lies before current_time
ScheduleEventBetweenRuns ==
    /\ pc = "idle"
    /\ deposited < MaxRequests
    /\ \E d \in 1..Len(DagTemplates), a \in ArrivalTimes :
          DepositRequest(d, a, 0)

NextBetweenRuns ==
    \/ Next
    \/ ScheduleEventBetweenRuns

SpecBetweenRuns == Init /\ [][NextBetweenRuns]_vars

(***************************************************************************)
(* A caller that builds its arrival events with a priority                 *)
(***************************************************************************)
\* Event.priority values the caller uses (lower = higher priority)
Priorities == {0, 1}
\* the DAG templates of this caller: single tool, two roots, two roots with a join
PriorityTemplates == {1, 3, 7}

ScheduleEventWithPriority ==
    /\ pc = "deposit"
    /\ deposited < MaxRequests
    /\ \E d \in PriorityTemplates, a \in ArrivalTimes, priority \in Priorities :
          /\ deposited > 0 => RLe(workload[deposited].arrival_time, a)
          /\ DepositRequest(d, a, priority)

NextWithPriority ==
    \/ ScheduleEventWithPriority
    \/ RunCall
    \/ RunReturn
    \/ StepRequestArrival
    \/ StepToolStart
    \/ StepCompletion

SpecWithPriority == Init /\ [][NextWithPriority]_vars

(***************************************************************************)
(* The EventQueue on its own: any sequence of push and pop                 *)
(***************************************************************************)
\* push(event): the payload records the number of the push
QueuePush ==
    /\ event_counter < MaxPushes
    /\ \E ts \in ArrivalTimes, priority \in Priorities :
          event_queue' = heappush(event_queue,
                                  [Event(ts, TOOL_START, <<event_counter + 1, "-">>)
                                      EXCEPT !.priority = priority])
    /\ event_counter' = event_counter + 1
    /\ queue_result' = [call |-> "push", result |-> "None", event |-> 0]
    /\ UNCHANGED <<metrics_vars, graph, tool_graph, resource_input, resource_manager, pops,
                   first_instance, workload, pc, until, max_steps, current_time, requests,
                   active_tools, completed_requests, total_steps, status, start_time,
                   finish_time, remaining_work, req_start_time, req_finish_time>>

\* pop() on a non-empty queue: the least event leaves the heap and is returned
QueuePop ==
    /\ event_queue # <<>>
    /\ event_queue' = heappop(event_queue)[2]
    /\ queue_result' = [call |-> "pop", result |-> "Event",
                        event |-> heappop(event_queue)[1].payload[1]]
    /\ pops' = pops + 1
    /\ UNCHANGED <<metrics_vars, graph, tool_graph, resource_input, resource_manager,
                   first_instance, workload, pc, until, max_steps, current_time, event_counter,
                   requests, active_tools, completed_requests, total_steps, status,
                   start_time, finish_time, remaining_work, req_start_time,
                   req_finish_time>>

QueuePopEmpty_returning_none ==
    /\ event_queue = <<>>
    /\ queue_result' = [call |-> "pop", result |-> "None", event |-> 0]
    /\ UNCHANGED <<metrics_vars, graph, tool_graph, resource_input, resource_manager, pops,
                   engine_vars>>

\* pop() on an empty queue: raises IndexError before the heap is touched
QueuePopEmpty ==
    /\ event_queue = <<>>
    /\ queue_result' = [call |-> "pop", result |-> "IndexError", event |-> 0]
    /\ UNCHANGED <<metrics_vars, graph, tool_graph, resource_input, resource_manager, pops,
                   engine_vars>>

\* peek(): the least event, or None for an empty queue; the heap stays
QueuePeek ==
    /\ queue_result' = IF event_queue # <<>>
                       THEN [call |-> "peek", result |-> "Event",
                             event |-> event_queue[1].payload[1]]
                       ELSE [call |-> "peek", result |-> "None", event |-> 0]
    /\ UNCHANGED <<metrics_vars, graph, tool_graph, resource_input, resource_manager, pops,
                   engine_vars>>

\* size()
size == Len(event_queue)

NextQueue ==
    \/ QueuePush
    \/ QueuePop
    \/ QueuePopEmpty
    \/ QueuePeek

SpecQueue == Init /\ [][NextQueue]_vars

(***************************************************************************)
(* The engine on binary64 loads: the arithmetic of the loop rounds as the  *)
(* Python floats do. The caller passes an unbounded horizon.               *)
(***************************************************************************)
ScheduleEventLargeLoads ==
    /\ pc = "deposit"
    /\ deposited < MaxRequests
    /\ \E d \in (Len(DagTemplates) + 1)..(Len(DagTemplates) + Len(LargeLoadTemplates)),
          a \in ArrivalTimes :
          /\ deposited > 0 => RLe(workload[deposited].arrival_time, a)
          /\ DepositRequest(d, a, 0)

\* the caller calls run(float('inf'), m)
RunCallUnbounded ==
    /\ pc \in {"deposit", "idle"}
    /\ until' = Inf
    /\ \E m \in StepCaps : max_steps' = m
    /\ pc' = "run"
    /\ UNCHANGED <<caller_vars, metrics_vars, first_instance, workload, current_time, event_queue, event_counter, requests, active_tools,
                   completed_requests, total_steps, status, start_time, finish_time,
                   remaining_work, req_start_time, req_finish_time>>

\* a completion iteration, followed while total_steps is below MaxTotalSteps
StepCompletionFollowed ==
    /\ total_steps < MaxTotalSteps
    /\ StepCompletion

NextBinary64 ==
    \/ ScheduleEventLargeLoads
    \/ RunCallUnbounded
    \/ RunReturn
    \/ StepRequestArrival
    \/ StepToolStart
    \/ StepCompletionFollowed

SpecBinary64 == Init /\ [][NextBinary64]_vars

(***************************************************************************)
(* A caller that repeats its calls of run(): it keeps the arguments of the *)
(* call that returned                                                      *)
(***************************************************************************)
\* the DAG templates of this caller: single tool, chain, two roots
RepeatedRunTemplates == {1, 2, 3}

ScheduleEventRepeatedRun ==
    /\ pc = "deposit"
    /\ deposited < MaxRequests
    /\ \E d \in RepeatedRunTemplates, a \in ArrivalTimes :
          /\ deposited > 0 => RLe(workload[deposited].arrival_time, a)
          /\ DepositRequest(d, a, 0)

\* a return of run() that first takes the next event out of the queue
RunReturnRemembered_popping ==
    /\ pc = "run"
    /\ LoopBreaks
    /\ pc' = "idle"
    /\ event_queue' = IF event_queue = <<>> THEN event_queue ELSE heappop(event_queue)[2]
    /\ UNCHANGED <<caller_vars, metrics_vars, first_instance, workload, until, max_steps, current_time, event_counter, requests,
                   active_tools, completed_requests, total_steps, status, start_time,
                   finish_time, remaining_work, req_start_time, req_finish_time>>

\* run() returns through one of its breaks; until and max_steps stay with the caller
RunReturnRemembered ==
    /\ pc = "run"
    /\ LoopBreaks
    /\ pc' = "idle"
    /\ UNCHANGED <<caller_vars, metrics_vars, first_instance, workload, until, max_steps, current_time, event_queue, event_counter,
                   requests, active_tools, completed_requests, total_steps, status,
                   start_time, finish_time, remaining_work, req_start_time,
                   req_finish_time>>

NextRepeatedRun ==
    \/ ScheduleEventRepeatedRun
    \/ RunCall
    \/ RunReturnRemembered
    \/ StepRequestArrival
    \/ StepToolStart
    \/ StepCompletion

SpecRepeatedRun == Init /\ [][NextRepeatedRun]_vars

(***************************************************************************)
(* Two simulator instances: the caller runs one engine on its arrival      *)
(* events, keeps the timestamps, builds a second engine with the same      *)
(* capacities and runs it on the same arrival events to the same horizon   *)
(***************************************************************************)
\* the DAG templates of this caller: single tool, two roots, diamond, two roots with a join
TwoInstanceTemplates == {1, 3, 4, 7}

ScheduleEventFirstInstance ==
    /\ pc = "deposit"
    /\ deposited < MaxRequests
    /\ \E d \in TwoInstanceTemplates, a \in ArrivalTimes :
          /\ deposited > 0 => RLe(workload[deposited].arrival_time, a)
          /\ DepositRequest(d, a, 0)

\* the caller calls run(u) without a step cap
RunCallUncapped ==
    /\ pc = "deposit"
    /\ \E u \in UntilValues : until' = u
    /\ max_steps' = NoCap
    /\ pc' = "run"
    /\ UNCHANGED <<caller_vars, metrics_vars, first_instance, workload, current_time, event_queue, event_counter,
                   requests, active_tools, completed_requests, total_steps, status,
                   start_time, finish_time, remaining_work, req_start_time,
                   req_finish_time>>

\* start and finish timestamps of every tool and request
Timestamps ==
    [start_time |-> start_time, finish_time |-> finish_time,
     req_start_time |-> req_start_time, req_finish_time |-> req_finish_time]

\* the caller keeps the timestamps of the first engine and constructs a
\* second engine and the same requests anew
SecondInstance ==
    /\ pc = "idle"
    /\ first_instance = <<>>
    /\ first_instance' = <<Timestamps>>
    /\ pc' = "deposit again"
    /\ current_time' = Zero
    /\ event_queue' = <<>>
    /\ event_counter' = 0
    /\ requests' = {}
    /\ active_tools' = {}
    /\ completed_requests' = <<>>
    /\ total_steps' = 0
    /\ status' = [t \in AllTools |-> "pending"]
    /\ start_time' = [t \in AllTools |-> None]
    /\ finish_time' = [t \in AllTools |-> None]
    /\ remaining_work' = [t \in AllTools |-> [r \in ResourceType |-> Zero]]
    /\ req_start_time' = [r \in RequestIds |-> None]
    /\ req_finish_time' = [r \in RequestIds |-> None]
    /\ UNCHANGED <<caller_vars, metrics_vars, workload, until, max_steps>>

\* the requests whose arrival event is in the queue
ArrivalsQueued ==
    {event_queue[i].payload[1] : i \in {j \in 1..Len(event_queue) :
                                          event_queue[j].event_type = REQUEST_ARRIVAL}}

\* the arrival events are handed to the second engine, in any order
ScheduleEventSecondInstance ==
    /\ pc = "deposit again"
    /\ \E r \in RequestIds \ ArrivalsQueued :
          event_queue' = heappush(event_queue,
                                  Event(workload[r].arrival_time, REQUEST_ARRIVAL, <<r, "-">>))
    /\ event_counter' = event_counter + 1
    /\ UNCHANGED <<caller_vars, metrics_vars, first_instance, workload, pc, until, max_steps, current_time, requests,
                   active_tools, completed_requests, total_steps, status, start_time,
                   finish_time, remaining_work, req_start_time, req_finish_time>>

\* the caller calls run() on the second engine with the arguments of the first call
RunCallSecondInstance ==
    /\ pc = "deposit again"
    /\ ArrivalsQueued = RequestIds
    /\ pc' = "run"
    /\ UNCHANGED <<caller_vars, metrics_vars, first_instance, workload, until, max_steps, current_time, event_queue,
                   event_counter, requests, active_tools, completed_requests,
                   total_steps, status, start_time, finish_time, remaining_work,
                   req_start_time, req_finish_time>>

NextTwoInstances ==
    \/ ScheduleEventFirstInstance
    \/ RunCallUncapped
    \/ RunReturnRemembered
    \/ SecondInstance
    \/ ScheduleEventSecondInstance
    \/ RunCallSecondInstance
    \/ StepRequestArrival
    \/ StepToolStart
    \/ StepCompletion

SpecTwoInstances == Init /\ [][NextTwoInstances]_vars

(***************************************************************************)
(* A caller that also hands TOOL_START events of its own to schedule_event *)
(***************************************************************************)
\* the DAG templates of this caller: single tool, chain
ToolStartTemplates == {1, 2}
\* the tool names this caller puts into its start events
ToolStartNames == {"A", "B"}

ScheduleEventChains ==
    /\ pc = "deposit"
    /\ deposited < MaxRequests
    /\ \E d \in ToolStartTemplates, a \in ArrivalTimes :
          /\ deposited > 0 => RLe(workload[deposited].arrival_time, a)
          /\ DepositRequest(d, a, 0)

\* schedule_event(Event(ts, TOOL_START, {'tool_id': ...})) by the caller, for
\* a tool of a request it has created or of one it has not
ScheduleToolStart ==
    /\ pc = "deposit"
    /\ event_counter < MaxPushes
    /\ \E r \in 1..MaxRequests, n \in ToolStartNames, ts \in ArrivalTimes :
          event_queue' = heappush(event_queue, Event(ts, TOOL_START, ToolId(r, n)))
    /\ event_counter' = event_counter + 1
    /\ UNCHANGED <<caller_vars, metrics_vars, first_instance, workload, pc, until, max_steps, current_time, requests,
                   active_tools, completed_requests, total_steps, status, start_time,
                   finish_time, remaining_work, req_start_time, req_finish_time>>

\* one iteration that pops a TOOL_START event whose tool is in no registered
\* request: _handle_tool_start raises ValueError, which ends run()
StepToolStartNotFound ==
    /\ pc = "run"
    /\ ~LoopBreaks
    /\ next_time = next_start_time
    /\ LET popped == heappop(event_queue)
           event == popped[1]
       IN  /\ event.event_type = TOOL_START
           /\ find_tool_by_id(requests, event.payload) = None
           /\ current_time' = event.timestamp
           /\ event_queue' = popped[2]
    /\ pc' = "ValueError"
    /\ until' = None
    /\ max_steps' = NoCap
    /\ UNCHANGED <<caller_vars, metrics_vars, first_instance, workload, event_counter, requests, active_tools,
                   completed_requests, total_steps, status, start_time, finish_time,
                   remaining_work, req_start_time, req_finish_time>>

NextToolStartEvents ==
    \/ ScheduleEventChains
    \/ ScheduleToolStart
    \/ RunCallUncapped
    \/ RunReturn
    \/ StepRequestArrival
    \/ StepToolStart
    \/ StepToolStartNotFound
    \/ StepCompletion

SpecToolStartEvents == Init /\ [][NextToolStartEvents]_vars

(***************************************************************************)
(* AgenticToolGraph: construction of a DAG template from an nx.DiGraph     *)
(***************************************************************************)
\* the node names the caller uses
NodeNames == <<"A", "B", "C", "D", "E">>
GraphNodes == Range(SubSeq(NodeNames, 1, MaxNodes))

\* graph.in_degree(n): the edges that end in n, a self-loop included
in_degree(g, n) == Cardinality({e \in g.edges : e[2] = n})

\* nx.is_directed_acyclic_graph: the nodes without incoming edge are taken
\* away, generation after generation, until none is left or none can be taken
RECURSIVE is_directed_acyclic_graph(_)
is_directed_acyclic_graph(g) ==
    IF g.nodes = {} THEN TRUE
    ELSE IF \A n \in g.nodes : in_degree(g, n) # 0 THEN FALSE
    ELSE is_directed_acyclic_graph(
             [nodes |-> {n \in g.nodes : in_degree(g, n) # 0},
              edges |-> {e \in g.edges : in_degree(g, e[1]) # 0}])

\* nx.descendants(g, source): breadth-first search along the edges
RECURSIVE descendants_from(_, _, _)
descendants_from(g, seen, frontier) ==
    IF frontier = {} THEN seen
    ELSE descendants_from(g, seen \cup frontier,
                          {e[2] : e \in {x \in g.edges : x[1] \in frontier}}
                              \ (seen \cup frontier))

descendants(g, source) == descendants_from(g, {}, {source}) \ {source}

\* _detect_cycles_and_fail: TRUE when it raises
detect_cycles_and_fail(g) == ~is_directed_acyclic_graph(g)

entry_nodes(g) == {n \in g.nodes : in_degree(g, n) = 0}

\* the reachability test for the single entry node: TRUE when it raises
unreachable_from(g, entry) ==
    Cardinality(descendants(g, entry) \cup {entry}) # Cardinality(g.nodes)

\* validation that only asks for an entry node
validate_single_entry_and_reachability_any_entry(g) ==
    Cardinality(entry_nodes(g)) = 0

\* _validate_single_entry_and_reachability: TRUE when it raises
validate_single_entry_and_reachability(g) ==
    \/ Cardinality(entry_nodes(g)) = 0
    \/ Cardinality(entry_nodes(g)) > 1
    \/ unreachable_from(g, CHOOSE n \in entry_nodes(g) : TRUE)

\* AgenticToolGraph(g): the object, or the ValueError of the first check that fails
AgenticToolGraph(g) ==
    IF detect_cycles_and_fail(g) THEN "ValueError"
    ELSE IF validate_single_entry_and_reachability(g) THEN "ValueError"
    ELSE "AgenticToolGraph"

\* the caller builds a DiGraph out of some nodes and edges between them and
\* hands it to the constructor
ConstructToolGraph ==
    /\ tool_graph = "none"
    /\ \E nodes \in SUBSET GraphNodes :
          \E edges \in SUBSET (nodes \X nodes) :
             /\ graph' = [nodes |-> nodes, edges |-> edges]
             /\ tool_graph' = AgenticToolGraph([nodes |-> nodes, edges |-> edges])
    /\ UNCHANGED <<engine_vars, metrics_vars, resource_input, resource_manager, queue_result, pops>>

NextToolGraph ==
    \/ ConstructToolGraph

SpecToolGraph == Init /\ [][NextToolGraph]_vars

(***************************************************************************)
(* ResourceManager: construction of the resource table                     *)
(***************************************************************************)
\* the capacities the caller writes into its mappings
CapacityValues == {-1, 0, 100}
\* a capacity for some of the resource kinds
CapacityMappings == UNION {[kinds -> CapacityValues] : kinds \in SUBSET ResourceType}

\* the default 1e12 = 244140625 * 2^12 of from_config and get_capacity
DefaultCapacity == FCanon(0, BFromInt(244140625), 12)

\* ResourceManager(capacities): one Resource per entry, whose __post_init__
\* raises ValueError for a capacity <= 0
ResourceManager(capacities) ==
    IF \E kind \in DOMAIN capacities : RLe(capacities[kind], Zero)
    THEN [result |-> "ValueError", resources |-> [kind \in {} |-> Zero]]
    ELSE [result |-> "ResourceManager", resources |-> capacities]

\* ResourceManager.from_config(config): the capacities above 0 are kept, every
\* other kind gets the default, and the constructor is called
from_config(config) ==
    ResourceManager([kind \in ResourceType |->
                        IF kind \in DOMAIN config /\ config[kind] > 0
                        THEN Whole(config[kind])
                        ELSE DefaultCapacity])

\* ResourceManager.get_capacity on a constructed table
table_capacity(resources, kind) ==
    IF kind \in DOMAIN resources THEN resources[kind] ELSE DefaultCapacity

\* the caller constructs a ResourceManager from a capacity mapping
ConstructResourceManager ==
    /\ resource_input.how = "none"
    /\ \E m \in CapacityMappings :
          /\ resource_input' = [how |-> "ResourceManager", mapping |-> m]
          /\ resource_manager' = ResourceManager([kind \in DOMAIN m |-> Whole(m[kind])])
    /\ UNCHANGED <<engine_vars, metrics_vars, graph, tool_graph, queue_result, pops>>

\* the caller constructs a ResourceManager from a configuration mapping
ConstructFromConfig ==
    /\ resource_input.how = "none"
    /\ \E config \in CapacityMappings :
          /\ resource_input' = [how |-> "from_config", mapping |-> config]
          /\ resource_manager' = from_config(config)
    /\ UNCHANGED <<engine_vars, metrics_vars, graph, tool_graph, queue_result, pops>>

NextResourceManager ==
    \/ ConstructResourceManager
    \/ ConstructFromConfig

SpecResourceManager == Init /\ [][NextResourceManager]_vars

(***************************************************************************)
(* The engine constructed with a metrics collector                         *)
(***************************************************************************)
\* SimulationEngine(resource_manager, metrics_collector=MetricsCollector())
ConstructWithCollector ==
    /\ pc = "deposit"
    /\ deposited = 0
    /\ metrics = "None"
    /\ metrics' = "MetricsCollector"
    /\ collector' = MetricsCollector
    /\ UNCHANGED <<engine_vars, caller_vars, current_share, collector_call>>

ScheduleEventWithCollector ==
    /\ metrics = "MetricsCollector"
    /\ ScheduleEvent

\* the completion branch of run is left out: with a collector no completion
\* time is ever due, since a tool with work ends the run at its start
\* (snapshot raises) and a tool without work has no completion time
NextWithMetrics ==
    \/ ConstructWithCollector
    \/ ScheduleEventWithCollector
    \/ RunCall
    \/ RunReturn
    \/ StepRequestArrival
    \/ StepToolStart

SpecWithMetrics == Init /\ [][NextWithMetrics]_vars

(***************************************************************************)
(* A caller of the collector's timeline: record_resource_allocation calls  *)
(* with non-decreasing times, then finalize_timeline, and exports          *)
(***************************************************************************)
\* the tool instances the caller passes, and the remaining work they hold
TimelineTools == {ToolId(1, "A"), ToolId(1, "B")}
TimelineWork == {Load(0, 0, 0, 0, 0), Load(100, 0, 0, 0, 0), Load(0, 0, 0, 50, 0)}
TimelineTimes == ArrivalTimes \cup {Q(1, 1)}

RecordResourceAllocation ==
    /\ ~collector_call.finalized
    /\ \E now \in TimelineTimes, active \in SUBSET TimelineTools :
          \E rw \in [active -> TimelineWork] :
             LET recorded == record_resource_allocation(collector, now, active, rw)
             IN  /\ RLe(collector_call.time, now)
                 /\ collector' = recorded.collector
                 /\ collector_call' =
                       [collector_call EXCEPT
                          !.call = "record_resource_allocation",
                          !.time = now,
                          !.active_tools = active,
                          !.remaining_work = rw,
                          !.result = IF recorded.raised THEN "AttributeError" ELSE "None"]
    /\ UNCHANGED <<engine_vars, caller_vars, metrics, current_share>>

FinalizeTimeline ==
    /\ ~collector_call.finalized
    /\ \E end_time \in TimelineTimes :
          /\ RLe(collector_call.time, end_time)
          /\ collector' = finalize_timeline(collector, end_time)
          /\ collector_call' = [collector_call EXCEPT !.call = "finalize_timeline",
                                                      !.time = end_time,
                                                      !.result = "None",
                                                      !.finalized = TRUE]
    /\ UNCHANGED <<engine_vars, caller_vars, metrics, current_share>>

ExportResourceTimeline ==
    /\ collector_call' = [collector_call EXCEPT !.call = "export_resource_timeline",
                                                !.result = "None",
                                                !.export = export_resource_timeline(collector)]
    /\ UNCHANGED <<engine_vars, caller_vars, metrics, collector, current_share>>

NextTimeline ==
    \/ RecordResourceAllocation
    \/ FinalizeTimeline
    \/ ExportResourceTimeline

SpecTimeline == Init /\ [][NextTimeline]_vars

(***************************************************************************)
(* Workloads in which a tool is due to complete at the very time at which  *)
(* the next request arrives                                                *)
(***************************************************************************)
QuarterSecondTemplate == Len(AllTemplates)
TieTemplates == {1, 2, QuarterSecondTemplate}

ScheduleEventTie ==
    /\ pc = "deposit"
    /\ deposited < MaxRequests
    /\ \E d \in TieTemplates, a \in ArrivalTimes :
          /\ deposited > 0 => RLe(workload[deposited].arrival_time, a)
          /\ DepositRequest(d, a, 0)

NextTie ==
    \/ ScheduleEventTie
    \/ RunCall
    \/ RunReturn
    \/ StepRequestArrival
    \/ StepToolStart
    \/ StepCompletion

SpecTie == Init /\ [][NextTie]_vars

(***************************************************************************)
(* Properties                                                              *)
(***************************************************************************)
\* the rate at which tool t draws on resource r in a state
tool_share(active, rw, t, r) ==
    IF t \in active /\ has_work_on_resource(rw, t, r)
    THEN compute_resource_shares(active, rw)[r]
    ELSE Zero

AllZeroLoads(t) == \A r \in ResourceType : get_load(t, r) = Zero

QueuedStarts == {event_queue[i].payload : i \in {j \in 1..Len(event_queue) :
                                                   event_queue[j].event_type = TOOL_START}}

\* C1: whenever a step advances current_time, every active tool's remaining
\* work on each resource it consumes is reduced by share x elapsed time
\* (clamped at zero), for start steps as well as completion steps.
C1_WorkReducedOnEveryAdvance ==
    [][current_time' # current_time =>
        \A t \in active_tools : \A r \in ResourceType :
            has_work_on_resource(remaining_work, t, r) =>
                remaining_work'[t][r] =
                    RMax(Zero, RSub(remaining_work[t][r],
                                    RMul(tool_share(active_tools, remaining_work, t, r),
                                         RSub(current_time', current_time))))]_vars

\* C2: a tool whose five loads are all zero is completed as soon as it has
\* started, with finish_time = start_time, and its ready dependents have
\* their start events queued (or have started) in that same step.
C2_ZeroLoadCompletesAtStart ==
    \A t \in AllTools :
        (AllZeroLoads(t) /\ status[t] # "pending") =>
            /\ status[t] = "completed"
            /\ finish_time[t] = start_time[t]
            /\ \A i \in 1..Len(get_dependents(t[1], t[2])) :
                  LET d == ToolId(t[1], get_dependents(t[1], t[2])[i])
                  IN  can_start_tool(status, t[1], d[2]) =>
                          (status[d] # "pending" \/ d \in QueuedStarts)

\* C3: between two steps no tool sits in the active set with status running
\* while all of its remaining-work components are <= epsilon.
C3_NoFinishedToolInActiveSet ==
    \A t \in active_tools :
        ~(status[t] = "running" /\ is_completed(remaining_work, t))

\* C4: every tool that has started has all of its DAG predecessors completed,
\* and started no earlier than the latest of their finish times.
C4_StartAfterPredecessors ==
    \A t \in AllTools :
        status[t] # "pending" =>
            \A dep \in get_dependencies(t[1], t[2]) :
                /\ status[ToolId(t[1], dep)] = "completed"
                /\ RLe(finish_time[ToolId(t[1], dep)], start_time[t])

\* a join node has started whose predecessors finished at different times
C4_Witness ==
    \E t \in AllTools :
        /\ status[t] # "pending"
        /\ \E d1 \in get_dependencies(t[1], t[2]), d2 \in get_dependencies(t[1], t[2]) :
              RLt(finish_time[ToolId(t[1], d1)], finish_time[ToolId(t[1], d2)])

MaxToolFinish(r) ==
    CHOOSE m \in {finish_time[t] : t \in ToolsOf(r)} :
        \A t \in ToolsOf(r) : RLe(finish_time[t], m)

\* C6: a completed request's finish_time is the maximum finish_time of its
\* tools, and its latency finish_time - arrival_time is >= 0.
C6_RequestFinishIsMax ==
    \A r \in Range(completed_requests) :
        /\ req_finish_time[r] = MaxToolFinish(r)
        /\ get_latency(r) # None
        /\ RLe(Zero, get_latency(r))

\* a completed request whose tools finished at different times, latency > 0
C6_Witness ==
    \E r \in Range(completed_requests) :
        /\ \E t1 \in ToolsOf(r), t2 \in ToolsOf(r) : finish_time[t1] # finish_time[t2]
        /\ RLt(Zero, get_latency(r))

RECURSIVE RSum(_, _)
RSum(f, S) ==
    IF S = {} THEN Zero
    ELSE LET x == CHOOSE y \in S : TRUE IN RAdd(f[x], RSum(f, S \ {x}))

\* the active tools with remaining work > epsilon on r
Consumers(r) == {t \in active_tools : GtEpsilon(remaining_work[t][r])}

\* C7: every consumer of r draws C(r)/n(r), every other tool draws 0; the
\* shares sum to C(r) when n(r) > 0 and never exceed C(r).
C7_FairShare ==
    \A r \in ResourceType :
        LET n == Cardinality(Consumers(r))
            share == [t \in AllTools |-> tool_share(active_tools, remaining_work, t, r)]
        IN  /\ \A t \in AllTools :
                  share[t] = IF t \in Consumers(r)
                             THEN RDiv(get_capacity(r), Q(n, 1)) ELSE Zero
            /\ n > 0 => RSum(share, active_tools) = get_capacity(r)
            /\ n = 1 => \A t \in Consumers(r) : share[t] = get_capacity(r)
            /\ RLe(RSum(share, active_tools), get_capacity(r))

\* one resource is shared by several tools while another has a sole consumer
C7_Witness ==
    \E r1 \in ResourceType, r2 \in ResourceType :
        /\ Cardinality(Consumers(r1)) >= 2
        /\ Cardinality(Consumers(r2)) = 1

\* now + remaining/share for every (active tool, resource) with
\* remaining > epsilon and share > 0
CompletionCandidates ==
    {RAdd(current_time,
          RDiv(remaining_work[p[1]][p[2]],
               compute_resource_shares(active_tools, remaining_work)[p[2]])) :
        p \in {x \in active_tools \X ResourceType :
                  /\ GtEpsilon(remaining_work[x[1]][x[2]])
                  /\ RLt(Zero, compute_resource_shares(active_tools, remaining_work)[x[2]])}}

\* C8: the oracle returns the minimum candidate, +infinity when there is
\* none (in particular when the active set is empty), and every pair with
\* remaining > epsilon has a share > 0, so no division by zero occurs.
C8_OracleIsMinimum ==
    LET res == find_next_completion(active_tools, remaining_work, current_time)
    IN  /\ active_tools = {} => res = Inf
        /\ CompletionCandidates = {} => res = Inf
        /\ CompletionCandidates # {} =>
              /\ res \in CompletionCandidates
              /\ \A c \in CompletionCandidates : RLe(res, c)
        /\ \A t \in active_tools : \A r \in ResourceType :
              GtEpsilon(remaining_work[t][r]) =>
                  RLt(Zero, compute_resource_shares(active_tools, remaining_work)[r])

\* the oracle chooses among several distinct candidates at a time > 0
C8_Witness ==
    /\ RLt(Zero, current_time)
    /\ Cardinality(CompletionCandidates) >= 2
    /\ pc = "run"

\* request 1 is the only request deposited and run() has been called
Alone == deposited = 1 /\ pc # "deposit"

IsChain(r) ==
    /\ Len(get_root_tools(r)) = 1
    /\ \A n \in Range(Dag(r).nodes) :
          /\ Cardinality(get_dependencies(r, n)) <= 1
          /\ Len(get_dependents(r, n)) <= 1

LoadedResources(t) == {r \in ResourceType : GtEpsilon(get_load(t, r))}

\* load / capacity of a tool that loads exactly one resource
SoloDuration(t) ==
    LET r == CHOOSE x \in LoadedResources(t) : TRUE
    IN  RDiv(get_load(t, r), get_capacity(r))

ChainAlone ==
    /\ Alone
    /\ IsChain(1)
    /\ \A t \in ToolsOf(1) : Cardinality(LoadedResources(t)) = 1

\* C10: in a chain of one-resource tools running alone, each tool finishes
\* load/capacity after its start, the root starts at the arrival, each
\* successor starts at its predecessor's finish, and the latency is the sum
\* of load/capacity along the chain.
C10_ChainLatency ==
    ChainAlone =>
        /\ \A t \in ToolsOf(1) :
              status[t] = "completed" =>
                  finish_time[t] = RAdd(start_time[t], SoloDuration(t))
        /\ \A t \in ToolsOf(1) :
              status[t] # "pending" =>
                  /\ get_dependencies(1, t[2]) = {} =>
                        start_time[t] = workload[1].arrival_time
                  /\ \A dep \in get_dependencies(1, t[2]) :
                        start_time[t] = finish_time[ToolId(1, dep)]
        /\ 1 \in Range(completed_requests) =>
              get_latency(1) = RSum([t \in ToolsOf(1) |-> SoloDuration(t)], ToolsOf(1))

\* the chain A(cpu=50) -> B(cpu=30) arrived at t=0, ran alone and completed
\* with A.finish = 0.5, B.finish = 0.8 and latency 0.8
C10_Witness ==
    /\ ChainAlone /\ workload[1].dag = 2 /\ workload[1].arrival_time = Zero
    /\ completed_requests = <<1>>
    /\ finish_time[ToolId(1, "A")] = Q(1, 2)
    /\ start_time[ToolId(1, "B")] = Q(1, 2)
    /\ finish_time[ToolId(1, "B")] = Q(4, 5)
    /\ get_latency(1) = Q(4, 5)

\* C11: the diamond A(cpu=1) -> {B(cpu=50), C(cpu=50)} -> D(cpu=40), alone on
\* C(cpu)=100: A finishes at arrival + 0.01; B and C start then, each draws
\* 50 while both run, and both finish at arrival + 1.01; D starts at
\* arrival + 1.01, runs alone (share 100) and finishes at arrival + 1.41.
C11_DiamondScenario ==
    (Alone /\ workload[1].dag = 4) =>
        LET a == workload[1].arrival_time
            A == ToolId(1, "A")
            B == ToolId(1, "B")
            C == ToolId(1, "C")
            D == ToolId(1, "D")
        IN  /\ status[A] = "completed" => finish_time[A] = RAdd(a, Q(1, 100))
            /\ \A t \in {B, C} :
                  /\ status[t] # "pending" => start_time[t] = RAdd(a, Q(1, 100))
                  /\ status[t] = "completed" => finish_time[t] = RAdd(a, Q(101, 100))
            /\ active_tools = {B, C} =>
                  /\ tool_share(active_tools, remaining_work, B, "cpu") = Q(50, 1)
                  /\ tool_share(active_tools, remaining_work, C, "cpu") = Q(50, 1)
            /\ status[D] # "pending" =>
                  /\ start_time[D] = RAdd(a, Q(101, 100))
                  /\ status[B] = "completed" /\ status[C] = "completed"
            /\ status[D] = "running" =>
                  /\ active_tools = {D}
                  /\ tool_share(active_tools, remaining_work, D, "cpu") = Q(100, 1)
            /\ status[D] = "completed" => finish_time[D] = RAdd(a, Q(141, 100))
            \* run to the end, no tool is left behind
            /\ (pc = "idle" /\ event_queue = <<>> /\ active_tools = {}
                    /\ status[A] = "completed") =>
                  completed_requests = <<1>>

\* the diamond arrived at t=0, ran alone and completed: B and C finished
\* together at 1.01 and D at 1.41
C11_Witness ==
    /\ Alone /\ workload[1].dag = 4 /\ workload[1].arrival_time = Zero
    /\ completed_requests = <<1>>
    /\ finish_time[ToolId(1, "A")] = Q(1, 100)
    /\ finish_time[ToolId(1, "B")] = Q(101, 100)
    /\ finish_time[ToolId(1, "C")] = Q(101, 100)
    /\ start_time[ToolId(1, "D")] = Q(101, 100)
    /\ finish_time[ToolId(1, "D")] = Q(141, 100)

\* the loop is about to take its start branch and pop the head of the queue
StartStepNext == pc = "run" /\ ~LoopBreaks /\ next_time = next_start_time

\* the loop is about to take its completion branch
CompletionStepNext == pc = "run" /\ ~LoopBreaks /\ next_time # next_start_time

\* the engine state on entry to the finalisation loop of the completion step
\* that is about to run: remaining work is updated, nothing is finalised yet
EngineAtFinalisation ==
    [status |-> status, finish_time |-> finish_time,
     active_tools |-> active_tools, event_queue |-> event_queue,
     req_finish_time |-> req_finish_time,
     completed_requests |-> completed_requests,
     collector |-> collector]

\* the tools that the completion step about to run will find completed
FinishingNow ==
    LET time_delta == RSub(next_completion_time, current_time)
        rw == update_remaining_work(active_tools, remaining_work, time_delta)
    IN  {t \in active_tools : is_completed(rw, t)}

\* the TOOL_START events of heap that are not in old, with multiplicity
NewStarts(old, heap) ==
    {i \in 1..Len(heap) :
        /\ heap[i].event_type = TOOL_START
        /\ Cardinality({j \in 1..Len(heap) : heap[j] = heap[i]})
              > Cardinality({j \in 1..Len(old) : old[j] = heap[i]})}

\* C12: when several tools complete in one completion step, all of them are
\* marked completed and removed from the active set before the dependents of
\* any of them are examined or enqueued, and every start event enqueued in
\* the step carries the completion time.
C12_FinaliseAllBeforeDependents ==
    CompletionStepNext =>
        LET now == next_completion_time
            e0 == EngineAtFinalisation
        IN  \A finished_tools \in Perms(FinishingNow) :
                /\ \A k \in 1..Len(finished_tools) :
                      LET tool == finished_tools[k]
                          \* the engine state in which the dependents of tool are examined
                          e == finalize_tools(e0, SubSeq(finished_tools, 1, k), now)
                      IN  Len(get_dependents(tool[1], tool[2])) > 0 =>
                              \A t \in FinishingNow :
                                  /\ e.status[t] = "completed"
                                  /\ e.finish_time[t] = now
                                  /\ t \notin e.active_tools
                /\ LET e == finalize_tools(e0, finished_tools, now)
                   IN  \A i \in NewStarts(event_queue, e.event_queue) :
                           e.event_queue[i].timestamp = now

\* number of queued events of the given type and payload
QueuedCount(heap, type, payload) ==
    Cardinality({i \in 1..Len(heap) :
                    heap[i].event_type = type /\ heap[i].payload = payload})

\* C13: a tool instance only moves pending -> running -> completed; it is
\* handed at most one TOOL_START event (queued only while it is pending,
\* never a second one, also for a join node whose predecessors finish in the
\* same step); it enters the active set once, on start, and never after
\* completion; an event leaves the queue when it is popped and is never
\* queued again.
C13_ToolLifecycle ==
    [][/\ \A t \in AllTools :
             /\ status'[t] # status[t] =>
                   <<status[t], status'[t]>> \in
                       {<<"pending", "running">>, <<"running", "completed">>}
             \* into the active set only on start, out of it only on completion
             /\ (t \in active_tools' /\ t \notin active_tools) =>
                   status[t] = "pending" /\ status'[t] = "running"
             /\ (t \notin active_tools' /\ t \in active_tools) =>
                   status'[t] = "completed"
             /\ (status'[t] = "running") <=> (t \in active_tools')
             \* a start event is queued for a pending tool that has none
             /\ QueuedCount(event_queue', TOOL_START, t) > QueuedCount(event_queue, TOOL_START, t) =>
                   /\ status[t] = "pending"
                   /\ QueuedCount(event_queue, TOOL_START, t) = 0
                   /\ QueuedCount(event_queue', TOOL_START, t) = 1
             \* the tool starts by consuming its one start event
             /\ (status[t] = "pending" /\ status'[t] = "running") =>
                   /\ QueuedCount(event_queue, TOOL_START, t) = 1
                   /\ QueuedCount(event_queue', TOOL_START, t) = 0
             /\ status'[t] # "pending" => QueuedCount(event_queue', TOOL_START, t) = 0
       /\ \A r \in RequestIds :
             \* the arrival event is consumed when the request is registered
             /\ QueuedCount(event_queue', REQUEST_ARRIVAL, <<r, "-">>) =
                   (IF r \in requests' THEN 0 ELSE 1)
             /\ r \in requests => r \in requests'
      ]_vars

\* a join node has started whose predecessors were finalised in one step
C13_Witness ==
    \E t \in AllTools :
        /\ status[t] = "completed"
        /\ \E d1 \in get_dependencies(t[1], t[2]), d2 \in get_dependencies(t[1], t[2]) :
              /\ d1 # d2
              /\ finish_time[ToolId(t[1], d1)] = finish_time[ToolId(t[1], d2)]
              /\ finish_time[ToolId(t[1], d1)] = start_time[t]

\* every tool of the workload has a load above epsilon on some resource
EveryToolLoaded ==
    \A t \in AllTools : \E r \in ResourceType : GtEpsilon(get_load(t, r))

\* nothing is left to do: no event queued, no tool active, every tool
\* completed and every request arrived and in the completed list
AllFinished ==
    /\ event_queue = <<>>
    /\ active_tools = {}
    /\ \A t \in AllTools : status[t] = "completed"
    /\ \A r \in RequestIds : r \in requests /\ r \in Range(completed_requests)

\* the loop is at a completion iteration that leaves current_time, the
\* remaining work and the active set as they are: only total_steps moves,
\* and without a step cap the same iteration is taken again and again
IterationChangesNothing ==
    /\ CompletionStepNext
    /\ next_completion_time = current_time
    /\ update_remaining_work(active_tools, remaining_work,
                             RSub(next_completion_time, current_time)) = remaining_work
    /\ FinishingNow = {}

\* C14: when every tool has a load above epsilon, run() with an unbounded
\* horizon and no step cap ends, and ends with an empty event queue, an empty
\* active set, every tool completed and every arrived request in the
\* completed list: the loop is never at an iteration it repeats for ever,
\* and when it breaks nothing is left to do.
C14_NoStarvation ==
    (pc = "run" /\ until = Inf /\ max_steps = NoCap /\ EveryToolLoaded) =>
        /\ ~IterationChangesNothing
        /\ LoopBreaks => AllFinished

\* C15: every iteration of the loop of run() that does not exit consumes a
\* queued event or drives the remaining work of some tool on some resource
\* from above epsilon to epsilon or below, which is why run() terminates.
C15_EveryIterationProgresses ==
    [][(pc = "run" /\ total_steps' # total_steps) =>
          \/ StartStepNext
          \/ \E t \in active_tools, r \in ResourceType :
                /\ GtEpsilon(remaining_work[t][r])
                /\ ~GtEpsilon(remaining_work'[t][r])
      ]_vars

\* C16: current_time never decreases from one step to the next, within a
\* run and across runs, whatever events are deposited before or between runs.
C16_TimeNeverDecreases ==
    [][RLe(current_time, current_time')]_vars

\* C17: once a tool is running, its remaining work on every resource never
\* increases from one step to the next and stays within
\* 0 <= remaining <= template load.
C17_RemainingWorkBounded ==
    [][\A t \in AllTools : \A r \in ResourceType :
          /\ status[t] # "pending" =>
                RLe(remaining_work'[t][r], remaining_work[t][r])
          /\ status'[t] # "pending" =>
                /\ RLe(Zero, remaining_work'[t][r])
                /\ RLe(remaining_work'[t][r], get_load(t, r))
      ]_vars

\* a running tool has used up part of its work on one resource and all of
\* its work on another
C17_Witness ==
    \E t \in active_tools : \E r1 \in ResourceType, r2 \in ResourceType :
        /\ RLt(Zero, remaining_work[t][r1])
        /\ RLt(remaining_work[t][r1], get_load(t, r1))
        /\ remaining_work[t][r2] = Zero
        /\ RLt(Zero, get_load(t, r2))

\* (timestamp, priority) of a before that of b
KeyBefore(a, b) ==
    \/ RLt(a.timestamp, b.timestamp)
    \/ a.timestamp = b.timestamp /\ a.priority < b.priority

C19_StableInsertionOrder ==
    event_queue # <<>> =>
        LET event == heappop(event_queue)[1]
        IN  \A i \in 1..Len(event_queue) :
                (/\ event_queue[i].timestamp = event.timestamp
                 /\ event_queue[i].priority = event.priority) =>
                    event.payload[1] <= event_queue[i].payload[1]

\* C20: a step of run(until) never pops an event whose timestamp exceeds
\* until and never moves current_time beyond until; when run() returns, on
\* the until wall or on the step cap, the tools in flight are exactly the
\* active set, all with status running, and the events not processed are
\* still queued.
C20_UntilWall ==
    [][/\ (pc = "run" /\ total_steps' # total_steps) =>
             /\ RLe(current_time', until)
             /\ StartStepNext =>
                   RLe(heappop(event_queue)[1].timestamp, until)
       /\ (pc = "run" /\ pc' = "idle") =>
             /\ active_tools' = active_tools
             /\ \A t \in AllTools : (status'[t] = "running") <=> (t \in active_tools')
             /\ \A t \in active_tools' : ~is_completed(remaining_work', t) =>
                   status'[t] = "running" /\ finish_time'[t] = None
             /\ event_queue' = event_queue
             /\ \A r \in RequestIds : r \notin requests' =>
                   QueuedCount(event_queue', REQUEST_ARRIVAL, <<r, "-">>) = 1
             /\ \A t \in AllTools :
                   (t[1] \in requests' /\ status'[t] = "pending"
                      /\ can_start_tool(status', t[1], t[2])) =>
                       QueuedCount(event_queue', TOOL_START, t) = 1
      ]_vars

\* run() is about to return on the until wall with a tool in flight and an
\* arrival event beyond the wall still queued
C20_Witness ==
    /\ pc = "run"
    /\ max_steps = NoCap
    /\ active_tools # {}
    /\ event_queue # <<>>
    /\ RLt(until, next_time)
    /\ RLt(until, next_start_time)

\* the attributes of the SimulationEngine, of its queue, tools and requests
SimulatorState ==
    <<current_time, event_queue, event_counter, requests, active_tools,
      completed_requests, total_steps, status, start_time, finish_time,
      remaining_work, req_start_time, req_finish_time>>

\* C21: run() with max_steps = 0 leaves the whole simulator state unchanged:
\* neither entering the call nor any step taken inside it changes the time,
\* the queue, the active set, a tool, a request or the step counter (a
\* snapshot is only taken next to the increment of the step counter)
C21_ZeroStepsChangesNothing ==
    [][(\/ pc' = "run" /\ max_steps' = 0
        \/ pc = "run" /\ max_steps = 0) => UNCHANGED SimulatorState]_vars

\* run(until, 0) is in progress with a start event due before the horizon
C21_Witness ==
    /\ pc = "run"
    /\ max_steps = 0
    /\ total_steps = 0
    /\ event_queue # <<>>
    /\ RLe(next_start_time, until)

\* C22: after run(until=T) without a step cap has returned, calling
\* run(until=T) again performs no step and changes no state: whenever such a
\* call has returned, one of the breaks of the loop is true for the same T
\* (the call made again finds it at once), and a return through a break
\* leaves the simulator as it was
C22_RepeatedRunChangesNothing ==
    /\ []((pc = "idle" /\ max_steps = NoCap) => LoopBreaks)
    /\ [][(pc = "run" /\ pc' = "idle") => UNCHANGED SimulatorState]_vars

\* run(T) without a step cap has returned on the wall T with a tool running
\* and an event queued
C22_Witness ==
    /\ pc = "idle"
    /\ max_steps = NoCap
    /\ until # None
    /\ active_tools # {}
    /\ event_queue # <<>>

StartEventDue ==
    /\ pc = "run"
    /\ ~LoopBreaks
    /\ next_time = next_start_time
    /\ event_queue[1].event_type = TOOL_START

\* C24: processing a start event for a tool that has at least one predecessor
\* not yet completed fails with a DependencyViolation error and does not mark
\* the tool running or insert it into the active set
C24_UnreadyStartFails ==
    [][\A t \in AllTools :
          (/\ StartEventDue
           /\ event_queue[1].payload = t
           /\ t[1] \in requests
           /\ status[t] = "pending"
           /\ ~can_start_tool(status, t[1], t[2]))
          => (/\ pc' = "DependencyViolation"
              /\ status'[t] = "pending"
              /\ t \notin active_tools')]_vars

C26_AbortLeavesLastCompletedStep ==
    [][pc' = "ValueError" => UNCHANGED SimulatorState]_vars

\* the pairs (a, b) with a path of one or more edges from a to b
RECURSIVE PathPairs(_)
PathPairs(R) ==
    LET joined == R \cup {<<p[1][1], p[2][2]>> : p \in {q \in R \X R : q[1][2] = q[2][1]}}
    IN  IF joined = R THEN R ELSE PathPairs(joined)

\* acyclic, exactly one node of in-degree zero, every node reachable from it
WellFormedTemplate(g) ==
    /\ \A n \in g.nodes : <<n, n>> \notin PathPairs(g.edges)
    /\ \E entry \in g.nodes :
          /\ \A e \in g.edges : e[2] # entry
          /\ \A n \in g.nodes \ {entry} :
                /\ \E e \in g.edges : e[2] = n
                /\ <<entry, n>> \in PathPairs(g.edges)

QueuedAt(heap, type, payload, ts) ==
    Cardinality({i \in 1..Len(heap) :
                    /\ heap[i].event_type = type
                    /\ heap[i].payload = payload
                    /\ heap[i].timestamp = ts})

\* C28: admitting a request enqueues one start event, timestamped with the
\* current simulation time, for every tool of the request that has no
\* predecessors (one or many roots), and for no other tool; the request's
\* start_time is set once, to the simulation time of its admission (the
\* timestamp of its arrival event), and never changes afterwards
C28_AdmissionStartsRoots ==
    [][\A r \in RequestIds :
          /\ (r \notin requests /\ r \in requests') =>
                \A t \in AllTools :
                   IF t[1] = r /\ get_dependencies(r, t[2]) = {}
                   THEN /\ QueuedCount(event_queue, TOOL_START, t) = 0
                        /\ QueuedCount(event_queue', TOOL_START, t) = 1
                        /\ QueuedAt(event_queue', TOOL_START, t, current_time') = 1
                   ELSE QueuedCount(event_queue', TOOL_START, t) =
                            QueuedCount(event_queue, TOOL_START, t)
          /\ req_start_time[r] # None => req_start_time'[r] = req_start_time[r]
          /\ req_start_time'[r] # None =>
                /\ r \in requests'
                /\ req_start_time'[r] = workload[r].arrival_time
          /\ (\E t \in ToolsOf(r) : status'[t] # "pending") => req_start_time'[r] # None
      ]_vars

\* a request with two roots was admitted after time 0; one root has started
\* and the start event of the other is still queued
C28_Witness ==
    \E r \in requests :
        /\ Len(get_root_tools(r)) = 2
        /\ workload[r].arrival_time # Zero
        /\ req_start_time[r] = current_time
        /\ \E n \in Range(get_root_tools(r)) :
              QueuedAt(event_queue, TOOL_START, ToolId(r, n), current_time) = 1

\* C29: building a resource table, directly from a capacity mapping or from a
\* configuration mapping, with a capacity <= 0 for any kind fails with an
\* error and creates no table; a successfully built table returns a strictly
\* positive capacity for every resource kind, with kinds absent from the input
\* mapped to the effectively unlimited default
C29_NonPositiveCapacityRejected ==
    resource_input.how # "none" =>
        /\ (\E kind \in DOMAIN resource_input.mapping : resource_input.mapping[kind] <= 0)
              => resource_manager.result = "ValueError"
        /\ resource_manager.result = "ResourceManager" =>
              \A kind \in ResourceType :
                 /\ RLt(Zero, table_capacity(resource_manager.resources, kind))
                 /\ kind \notin DOMAIN resource_input.mapping =>
                       table_capacity(resource_manager.resources, kind) = DefaultCapacity

\* C30: pop on an empty event queue fails with an error and leaves the queue
\* empty and unchanged; peek on an empty queue reports no event without
\* failing; after any sequence of pushes and pops the size is the number of
\* pushes minus the number of pops that returned an event.
C30_EmptyQueueCalls ==
    /\ [](size = event_counter - pops)
    /\ [][(event_queue = <<>> /\ queue_result'.call = "pop") =>
              /\ queue_result'.result = "IndexError"
              /\ event_queue' = <<>>
              /\ UNCHANGED <<event_counter, pops>>]_vars
    /\ [][(event_queue = <<>> /\ queue_result'.call = "peek") =>
              /\ queue_result'.result = "None"
              /\ event_queue' = <<>>
              /\ UNCHANGED <<event_counter, pops>>]_vars

\* a pop on a queue that pushes and pops have emptied again has failed
C30_Witness ==
    /\ queue_result = [call |-> "pop", result |-> "IndexError", event |-> 0]
    /\ event_queue = <<>>
    /\ event_counter >= 2
    /\ pops = event_counter

\* C31: when the snapshot at the end of an iteration of run() reads the
\* shares, every active tool holds for every kind it consumes the fair share
\* of the state the iteration has produced; no stale share is read.
C31_NoStaleShare ==
    [][(metrics = "MetricsCollector" /\ pc = "run" /\ pc' # "idle") =>
          \A tool \in active_tools' : \A r \in ResourceType :
              has_work_on_resource(remaining_work', tool, r) =>
                  /\ tool \in DOMAIN current_share'
                  /\ current_share'[tool][r] =
                         tool_share(active_tools', remaining_work', tool, r)]_vars

\* C32: with a collector attached every iteration of run() appends exactly
\* one snapshot, taken after the changes of the iteration and carrying its
\* current_time; the number of snapshots is the step counter, snapshot
\* times do not decrease and the consumer count of each kind is the number
\* of active tools with remaining work above epsilon on it.
C32_OneSnapshotPerStep ==
    [][(metrics = "MetricsCollector" /\ pc = "run" /\ pc' # "idle") =>
          LET before == collector.utilization_snapshots
              after == collector'.utilization_snapshots
          IN  /\ Len(after) = Len(before) + 1
              /\ Len(after) = total_steps'
              /\ SubSeq(after, 1, Len(before)) = before
              /\ after[Len(after)].time = current_time'
              /\ before # <<>> => RLe(before[Len(before)].time, current_time')
              /\ \A r \in ResourceType :
                    after[Len(after)].consumers[r] =
                        Cardinality({tool \in active_tools' :
                                        has_work_on_resource(remaining_work', tool, r)})]_vars

\* C33: whenever an iteration of run() changes the active set, every open
\* allocation interval of the collector is closed with end = current_time
\* and every kind that a tool consumes gets a new open interval that starts
\* at current_time and records the shares of its consumers.
C33_IntervalPerActiveSetChange ==
    [][(metrics = "MetricsCollector" /\ pc = "run" /\ active_tools' # active_tools) =>
          \A r \in ResourceType :
              LET before == collector.resource_timeline[r]
                  after == collector'.resource_timeline[r]
                  consumers == {tool \in active_tools' :
                                   has_work_on_resource(remaining_work', tool, r)}
              IN  /\ (before # <<>> /\ before[Len(before)].end = None) =>
                         /\ Len(after) >= Len(before)
                         /\ after[Len(before)].end = current_time'
                  /\ consumers # {} =>
                         /\ Len(after) = Len(before) + 1
                         /\ after[Len(after)].start = current_time'
                         /\ after[Len(after)].end = None
                         /\ DOMAIN after[Len(after)].allocations = consumers]_vars

\* C34: after any sequence of record_resource_allocation calls with
\* non-decreasing times and a finalize_timeline, each timeline has at most
\* one open interval and it is the last, consecutive intervals are
\* contiguous, every closed interval has start <= end, every call has
\* recorded an interval for each kind that a tool consumes, and the export
\* holds every recorded interval once finalised and omits the open one
\* otherwise.
C34_TimelineIntervals ==
    /\ \A r \in ResourceType :
          LET timeline == collector.resource_timeline[r]
          IN  /\ \A i \in 1..Len(timeline) : timeline[i].end = None => i = Len(timeline)
              /\ \A i \in 1..(Len(timeline) - 1) : timeline[i].end = timeline[i + 1].start
              /\ \A i \in 1..Len(timeline) :
                    timeline[i].end # None => RLe(timeline[i].start, timeline[i].end)
    /\ collector_call.call = "record_resource_allocation" =>
          /\ collector_call.result = "None"
          /\ \A r \in ResourceType :
                (\E tool \in collector_call.active_tools :
                    has_work_on_resource(collector_call.remaining_work, tool, r)) =>
                   LET timeline == collector.resource_timeline[r]
                   IN  /\ timeline # <<>>
                       /\ timeline[Len(timeline)].start = collector_call.time
                       /\ timeline[Len(timeline)].end = None
    /\ collector_call.call = "export_resource_timeline" =>
          \A r \in ResourceType :
              LET timeline == collector.resource_timeline[r]
                  exported == collector_call.export[r]
              IN  IF collector_call.finalized \/ timeline = <<>>
                  THEN exported = timeline
                  ELSE exported = SubSeq(timeline, 1, Len(timeline) - 1)

\* C35: in every reachable state a tool instance is in the active set
\* exactly when its status is running, and a completed tool has its start
\* and finish times set with finish_time >= start_time.
C35_ActiveIffRunning ==
    \A tool \in AllTools :
        /\ tool \in active_tools <=> status[tool] = "running"
        /\ status[tool] = "completed" =>
              /\ start_time[tool] # None
              /\ finish_time[tool] # None
              /\ RLe(start_time[tool], finish_time[tool])

\* a completed tool, a running one and a pending one at the same time
C35_Witness ==
    /\ \E tool \in AllTools : status[tool] = "completed"
    /\ \E tool \in AllTools : status[tool] = "running" /\ tool \in active_tools
    /\ \E tool \in AllTools : status[tool] = "pending"

\* C36: a tool that has started did not wait at the dependency gate: the
\* start_time of a tool with predecessors is the greatest finish_time of
\* its predecessors, and the start_time of a root tool is the timestamp of
\* the arrival event of its request, whatever other requests are running.
C36_NoDelayAtDependencyGate ==
    \A tool \in AllTools :
        start_time[tool] # None =>
            LET predecessors == {ToolId(tool[1], n) :
                                    n \in get_dependencies(tool[1], tool[2])}
            IN  IF predecessors = {}
                THEN start_time[tool] = workload[tool[1]].arrival_time
                ELSE /\ \A p \in predecessors :
                          /\ finish_time[p] # None
                          /\ RLe(finish_time[p], start_time[tool])
                     /\ \E p \in predecessors : finish_time[p] = start_time[tool]

\* two requests are in the system and a tool has started after two
\* predecessors that finished at different times
C36_Witness ==
    /\ Cardinality(requests) = 2
    /\ \E tool \in AllTools :
          /\ start_time[tool] # None
          /\ \E n1, n2 \in get_dependencies(tool[1], tool[2]) :
                RLt(finish_time[ToolId(tool[1], n1)], finish_time[ToolId(tool[1], n2)])

\* the head of the queue and the next completion carry the same timestamp
StartCompletionTie ==
    /\ pc = "run"
    /\ ~LoopBreaks
    /\ next_time # Inf
    /\ next_start_time = next_completion_time

\* C37: when the head of the queue has the timestamp t of the predicted
\* next completion, the iteration processes the start event and completes
\* no tool, and the tool that was due at t is still finalised with
\* finish_time = t: a single tool with cpu = 25 that arrives at 0 and has
\* the cpu to itself, with the next request arriving at 0.25, finishes at 0.25.
C37_TieStartThenCompletion ==
    /\ [][StartCompletionTie =>
              /\ current_time' = next_start_time
              /\ Len(event_queue') >= Len(event_queue) - 1
              /\ finish_time' = finish_time
              /\ active_tools \subseteq active_tools']_vars
    /\ []((/\ deposited = 2
            /\ workload[1] = [dag |-> QuarterSecondTemplate, arrival_time |-> Q(0, 1)]
            /\ workload[2].arrival_time = Q(1, 4)
            /\ finish_time[ToolId(1, "A")] # None)
           => finish_time[ToolId(1, "A")] = Q(1, 4))

\* C38: max_steps bounds the engine's cumulative step counter: a call of
\* run() with a cap N takes no step once total_steps >= N and never leaves
\* total_steps above N when it took one, and total_steps grows by exactly
\* one with every processed start event or completion step.
C38_CumulativeStepCap ==
    [][/\ (pc = "run" /\ pc' = "run") => total_steps' = total_steps + 1
       /\ (pc = "run" /\ pc' = "run" /\ max_steps # NoCap) =>
             /\ total_steps < max_steps
             /\ total_steps' <= max_steps
       /\ ~(pc = "run" /\ pc' = "run") => total_steps' = total_steps]_vars

\* a later call of run() whose cap is below the steps that earlier calls
\* have taken, entered while an event is due before its horizon
C38_Witness ==
    /\ pc = "run"
    /\ max_steps = StepCap
    /\ total_steps > StepCap
    /\ event_queue # <<>>
    /\ RLe(next_start_time, until)

\* C39: processing a TOOL_START event for a tool that is not pending leaves
\* that tool's status, start_time and remaining work as they are: a running
\* tool keeps its progress and a completed tool is not started again.
C39_StartOfNonPendingToolIgnored ==
    [][\A t \in AllTools :
          (/\ StartEventDue
           /\ event_queue[1].payload = t
           /\ t[1] \in requests
           /\ status[t] # "pending")
          => (/\ status'[t] = status[t]
              /\ start_time'[t] = start_time[t]
              /\ remaining_work'[t] = remaining_work[t])]_vars

====
